---- MODULE Spec2Model ----
(***************************************************************************)
(* Blob transfer layer of IP_Guardian: the Walrus CLI script               *)
(* (scripts/walrus-upload.js), the service functions that shell out to it  *)
(* (lib/walrus: uploadToWalrus / downloadFromWalrus), the download route   *)
(* (app/api/download/[blobId]/route.ts) and the two diagnostic scripts     *)
(* (upload+verify, standalone retrieval).                                  *)
(*                                                                         *)
(* Strings are sequences of one-character strings, so that startsWith,     *)
(* replace, trim and the stdout line protocol are computed, not assumed.   *)
(* Emoji that open a log line are written "*".                             *)
(***************************************************************************)
EXTENDS Integers, Sequences, FiniteSets, TLC

VARIABLES
  secretKey,   \* process.env.SUI_SECRET_KEY, <<>> when it is not set
  svc,         \* per caller: the service / route / CLI call in progress
  proc,        \* per caller: the node child process running walrus-upload.js
  trace,       \* per caller: network calls, resets and waits, in order
  files,       \* the file system: path -> bytes
  net,         \* the storage network: blobId -> bytes
  verify,      \* the upload+verify script (main)
  standalone,  \* the standalone retrieval script (downloadBlobById)
  contractModule  \* lib/contract: the cached handle, the Contract objects built, the calls made

vars == <<secretKey, svc, proc, trace, files, net, verify, standalone, contractModule>>

----------------------------------------------------------------------------
(* Bounds *)

MaxLen == 2
MaxCalls == 4
ByteVals == {0, 255}
CallIds == {1, 2}

----------------------------------------------------------------------------
(* Strings *)

BlobIdPrefix == <<"B","l","o","b"," ","I","D",":">>
FileSavedPrefix == <<"F","i","l","e"," ","s","a","v","e","d"," ","t","o",":">>
MockPrefix == <<"m","o","c","k","-","b","l","o","b","-">>
Whitespace == {" ", "\t", "\n", "\r"}

StartsWith(s, p) ==
  /\ Len(p) <= Len(s)
  /\ SubSeq(s, 1, Len(p)) = p

\* String.prototype.replace(p, '') : removes the first occurrence of p
RECURSIVE ReplaceFirst(_, _)
ReplaceFirst(s, p) ==
  IF Len(s) < Len(p) THEN s
  ELSE IF StartsWith(s, p) THEN SubSeq(s, Len(p) + 1, Len(s))
  ELSE <<Head(s)>> \o ReplaceFirst(Tail(s), p)

RECURSIVE TrimStart(_)
TrimStart(s) ==
  IF s # <<>> /\ Head(s) \in Whitespace THEN TrimStart(Tail(s)) ELSE s

RECURSIVE TrimEnd(_)
TrimEnd(s) ==
  IF s # <<>> /\ s[Len(s)] \in Whitespace
  THEN TrimEnd(SubSeq(s, 1, Len(s) - 1)) ELSE s


\* (no trim)
Trim_None(s) == s

Trim(s) == TrimEnd(TrimStart(s))

Digit(n) == <<"0","1","2","3","4","5","6","7","8","9">>[n + 1]

RECURSIVE NatToStr(_)
NatToStr(n) ==
  IF n < 10 THEN <<Digit(n)>> ELSE NatToStr(n \div 10) \o <<Digit(n % 10)>>

\* console.log(a, b): the arguments joined by one space, one line of output
ConsoleLog2(a, b) == a \o <<" ">> \o b

\* s.includes(p)
RECURSIVE Includes(_, _)
Includes(s, p) ==
  IF Len(s) < Len(p) THEN FALSE
  ELSE StartsWith(s, p) \/ Includes(Tail(s), p)

\* (the first line that contains p, wherever)
RECURSIVE FindLine_Includes(_, _)
FindLine_Includes(lines, p) ==
  IF lines = <<>> THEN <<>>
  ELSE IF Includes(Head(lines), p) THEN <<Head(lines)>>
  ELSE FindLine_Includes(Tail(lines), p)

\* lines.find(line => line.startsWith(p)); <<>> stands for undefined
RECURSIVE FindLine(_, _)
FindLine(lines, p) ==
  IF lines = <<>> THEN <<>>
  ELSE IF StartsWith(Head(lines), p) THEN <<Head(lines)>>
  ELSE FindLine(Tail(lines), p)

----------------------------------------------------------------------------
(* Data *)

RECURSIVE SeqsUpTo(_, _)
SeqsUpTo(S, n) ==
  IF n = 0 THEN {<<>>}
  ELSE LET shorter == SeqsUpTo(S, n - 1)
       IN shorter \cup {Append(s, x) : s \in {t \in shorter : Len(t) = n - 1}, x \in S}

ByteSeqs == SeqsUpTo(ByteVals, MaxLen)

\* identifiers the network assigns (base64url alphabet)
NetBlobIds == { <<"S","x","B">>, <<"m","o","c","k","_","1">> }

\* Date.now() and Math.random().toString(36).substr(2, 9)
Timestamps == { <<"1">>, <<"2">> }
RandomSuffixes == { <<"a">>, <<"b">> }

Ev(e) == [ev |-> e, ms |-> 0]
WaitEv(d) == [ev |-> "wait", ms |-> d]

NoResult == [defined |-> FALSE, blobId |-> <<>>]

NoProc ==
  [pc |-> "none", command |-> "", arg |-> <<>>, fileContents |-> <<>>,
   attempts |-> 0, result |-> NoResult, stdout |-> <<>>, exitCode |-> -1,
   keypair |-> <<>>, tried |-> <<>>, error |-> ""]

WriteFile(fs, path, bytes) ==
  [p \in DOMAIN fs \cup {path} |-> IF p = path THEN bytes ELSE fs[p]]

Unlink(fs, path) == [p \in DOMAIN fs \ {path} |-> fs[p]]

EmptyMap == [p \in {} |-> <<>>]

\* blob ids are content addresses: an id in use names exactly one content
Assignable(id, bytes) == IF id \in DOMAIN net THEN net[id] = bytes ELSE TRUE

----------------------------------------------------------------------------
(* Encodings of the signing key (SUI_SECRET_KEY) *)

\* the length every decoded key is tested against (lines 33, 42, 62)
KeyLen == 32

\* position of ch in an alphabet, counted from 0; -1 when absent
IndexOf(alphabet, ch) ==
  IF \E i \in DOMAIN alphabet : alphabet[i] = ch
  THEN (CHOOSE i \in DOMAIN alphabet : alphabet[i] = ch) - 1
  ELSE -1

LastIndexOf(s, ch) ==
  IF \E i \in DOMAIN s : s[i] = ch
  THEN CHOOSE i \in DOMAIN s : s[i] = ch /\ \A j \in DOMAIN s : s[j] = ch => j <= i
  ELSE 0

HexDigits == <<"0","1","2","3","4","5","6","7","8","9","a","b","c","d","e","f">>
HexDigitsUpper == <<"0","1","2","3","4","5","6","7","8","9","A","B","C","D","E","F">>

HexVal(ch) ==
  IF IndexOf(HexDigits, ch) >= 0 THEN IndexOf(HexDigits, ch) ELSE IndexOf(HexDigitsUpper, ch)

\* Buffer.prototype.toString('hex')
RECURSIVE HexEncode(_)
HexEncode(bytes) ==
  IF bytes = <<>> THEN <<>>
  ELSE << HexDigits[(Head(bytes) \div 16) + 1], HexDigits[(Head(bytes) % 16) + 1] >>
       \o HexEncode(Tail(bytes))

\* Buffer.from(s, 'hex'): pairs of hex digits, cut at the first pair that
\* is not one (it does not throw)
RECURSIVE BufferFromHex(_)
BufferFromHex(s) ==
  IF Len(s) < 2 \/ HexVal(s[1]) < 0 \/ HexVal(s[2]) < 0 THEN <<>>
  ELSE << 16 * HexVal(s[1]) + HexVal(s[2]) >> \o BufferFromHex(SubSeq(s, 3, Len(s)))

Base64Alphabet ==
  <<"A","B","C","D","E","F","G","H","I","J","K","L","M","N","O","P",
    "Q","R","S","T","U","V","W","X","Y","Z","a","b","c","d","e","f",
    "g","h","i","j","k","l","m","n","o","p","q","r","s","t","u","v",
    "w","x","y","z","0","1","2","3","4","5","6","7","8","9","+","/">>

\* the url-safe characters are accepted as well
Base64Val(ch) ==
  IF ch = "-" THEN 62 ELSE IF ch = "_" THEN 63 ELSE IndexOf(Base64Alphabet, ch)

\* Buffer.prototype.toString('base64')
RECURSIVE Base64Encode(_)
Base64Encode(bytes) ==
  LET ch(v) == Base64Alphabet[v + 1]
      b1 == bytes[1]
      b2 == bytes[2]
      b3 == bytes[3]
  IN IF bytes = <<>> THEN <<>>
     ELSE IF Len(bytes) = 1
     THEN << ch(b1 \div 4), ch((b1 % 4) * 16), "=", "=" >>
     ELSE IF Len(bytes) = 2
     THEN << ch(b1 \div 4), ch((b1 % 4) * 16 + (b2 \div 16)), ch((b2 % 16) * 4), "=" >>
     ELSE << ch(b1 \div 4), ch((b1 % 4) * 16 + (b2 \div 16)),
             ch((b2 % 16) * 4 + (b3 \div 64)), ch(b3 % 64) >>
          \o Base64Encode(SubSeq(bytes, 4, Len(bytes)))

\* the 6-bit values of a base64 text: characters outside the alphabet are
\* skipped, '=' ends the text
RECURSIVE Base64Symbols(_)
Base64Symbols(s) ==
  IF s = <<>> \/ Head(s) = "=" THEN <<>>
  ELSE IF Base64Val(Head(s)) >= 0 THEN <<Base64Val(Head(s))>> \o Base64Symbols(Tail(s))
  ELSE Base64Symbols(Tail(s))

RECURSIVE Base64Bytes(_)
Base64Bytes(v) ==
  IF Len(v) < 2 THEN <<>>
  ELSE IF Len(v) = 2 THEN << v[1] * 4 + (v[2] \div 16) >>
  ELSE IF Len(v) = 3 THEN << v[1] * 4 + (v[2] \div 16), (v[2] % 16) * 16 + (v[3] \div 4) >>
  ELSE << v[1] * 4 + (v[2] \div 16), (v[2] % 16) * 16 + (v[3] \div 4), (v[3] % 4) * 64 + v[4] >>
       \o Base64Bytes(SubSeq(v, 5, Len(v)))

\* Buffer.from(s, 'base64'): it does not throw either
BufferFromBase64(s) == Base64Bytes(Base64Symbols(s))

\* the Sui private key form: bech32 text 'suiprivkey1...' over
\* (scheme flag byte, key bytes), as decodeSuiPrivateKey reads it
SuiPrefix == <<"s","u","i","p","r","i","v","k","e","y">>

Bech32Alphabet ==
  <<"q","p","z","r","y","9","x","8","g","f","2","t","v","d","w","0",
    "s","3","j","n","5","4","k","h","c","e","6","m","u","a","7","l">>

\* the character codes of SuiPrefix: code >> 5, then 0, then code & 31
SuiPrefixExpanded ==
  <<3, 3, 3, 3, 3, 3, 3, 3, 3, 3, 0, 19, 21, 9, 16, 18, 9, 22, 11, 5, 25>>

Bech32Generators == <<996825010, 642813549, 513874426, 1027748829, 705979059>>

RECURSIVE Xor(_, _)
Xor(a, b) ==
  IF a = 0 THEN b ELSE IF b = 0 THEN a
  ELSE ((a + b) % 2) + 2 * Xor(a \div 2, b \div 2)

RECURSIVE Bech32PolymodStep(_, _, _)
Bech32PolymodStep(chk, b, i) ==
  IF i > Len(Bech32Generators) THEN chk
  ELSE Bech32PolymodStep(
         IF (b \div (2 ^ (i - 1))) % 2 = 1 THEN Xor(chk, Bech32Generators[i]) ELSE chk,
         b, i + 1)

Bech32Polymod(pre) == Bech32PolymodStep((pre % (2 ^ 25)) * 32, pre \div (2 ^ 25), 1)

\* chk = polymod(chk) ^ v for every v of values, in order
RECURSIVE Bech32Fold(_, _)
Bech32Fold(chk, values) ==
  IF values = <<>> THEN chk
  ELSE IF Len(values) = 1 THEN Xor(Bech32Polymod(chk), values[1])
  ELSE LET half == Len(values) \div 2
       IN CHOOSE r \in { Bech32Fold(c, SubSeq(values, half + 1, Len(values))) :
                            c \in { Bech32Fold(chk, SubSeq(values, 1, half)) } } : TRUE

\* the six checksum words of a data part under the prefix 'suiprivkey'
Bech32Checksum(words) ==
  LET chk == Xor(Bech32Fold(1, SuiPrefixExpanded \o words \o <<0, 0, 0, 0, 0, 0>>), 1)
  IN [i \in 1..6 |-> (chk \div (2 ^ (5 * (6 - i)))) % 32]

\* the groups of `to` bits that a carry of `pos` bits gives out
RECURSIVE EmitGroups(_, _, _)
EmitGroups(carry, pos, to) ==
  IF pos < to THEN <<>>
  ELSE << (carry \div (2 ^ (pos - to))) % (2 ^ to) >> \o EmitGroups(carry, pos - to, to)

\* the bits of data, given in groups of `from` bits behind a carry of
\* `pos` bits, regrouped by `to`: the groups given out and the carry left
RECURSIVE RegroupBits(_, _, _, _, _)
RegroupBits(data, from, to, carry, pos) ==
  IF data = <<>> THEN [out |-> <<>>, carry |-> carry, pos |-> pos]
  ELSE IF Len(data) = 1
  THEN LET c == carry * (2 ^ from) + data[1]
           p == pos + from
       IN [out |-> EmitGroups(c, p, to), carry |-> c % (2 ^ (p % to)), pos |-> p % to]
  ELSE LET half == Len(data) \div 2
           l == RegroupBits(SubSeq(data, 1, half), from, to, carry, pos)
           r == RegroupBits(SubSeq(data, half + 1, Len(data)), from, to, l.carry, l.pos)
       IN [out |-> l.out \o r.out, carry |-> r.carry, pos |-> r.pos]

\* convertRadix2(data, from, to, padding): without padding, left-over bits
\* make it throw (ok = FALSE)
ConvertRadix2(data, from, to, padding) ==
  LET s == RegroupBits(data, from, to, 0, 0)
      last == (s.carry * (2 ^ (to - s.pos))) % (2 ^ to)
  IN IF ~padding /\ (s.pos >= from \/ last > 0) THEN [ok |-> FALSE, out |-> <<>>]
     ELSE [ok |-> TRUE, out |-> s.out \o (IF padding /\ s.pos > 0 THEN <<last>> ELSE <<>>)]

\* the native text of a key: what `sui keytool export` prints
SuiEncode(key) ==
  LET words == ConvertRadix2(<<0>> \o key, 8, 5, TRUE).out
      all == words \o Bech32Checksum(words)
  IN SuiPrefix \o <<"1">> \o [i \in DOMAIN all |-> Bech32Alphabet[all[i] + 1]]

NoKeyBytes == [ok |-> FALSE, secretKey |-> <<>>]

\* decodeSuiPrivateKey(value): a throw is ok = FALSE
DecodeSuiPrivateKey(s) ==
  LET sep == LastIndexOf(s, "1")
      prefix == SubSeq(s, 1, sep - 1)
      data == SubSeq(s, sep + 1, Len(s))
      vals == [i \in DOMAIN data |-> IndexOf(Bech32Alphabet, data[i])]
      words == SubSeq(vals, 1, Len(vals) - 6)
      bytes == ConvertRadix2(words, 5, 8, FALSE)
  IN IF Len(s) < 8 \/ Len(s) > 90 \/ sep <= 1 \/ Len(data) < 6 THEN NoKeyBytes
     ELSE IF \E i \in DOMAIN vals : vals[i] < 0 THEN NoKeyBytes
     ELSE IF prefix # SuiPrefix THEN NoKeyBytes
     ELSE IF SubSeq(vals, Len(vals) - 5, Len(vals)) # Bech32Checksum(words) THEN NoKeyBytes
     ELSE IF ~bytes.ok THEN NoKeyBytes
     ELSE [ok |-> TRUE,
           secretKey |-> IF bytes.out = <<>> THEN <<>> ELSE Tail(bytes.out)]

HexPrefix == <<"0","x">>

\* the three texts of a key that the startup means to accept
SuiForm(key) == SuiEncode(key)
HexForm(key) == HexPrefix \o HexEncode(key)
Base64Form(key) == Base64Encode(key)

\* keys of the right length: constant bytes, mixed bytes, and a key whose
\* first bytes are d3 1d
Keys ==
  { [i \in 1..KeyLen |-> b] : b \in {0, 255} }
  \cup { [i \in 1..KeyLen |-> (i * 37 + 11) % 256],
         [i \in 1..KeyLen |-> IF i = 1 THEN 211 ELSE IF i = 2 THEN 29 ELSE (i * 5) % 256] }

\* keys one byte short and one byte long
WrongLengthKeys == { [i \in 1..(KeyLen - 1) |-> 255], [i \in 1..(KeyLen + 1) |-> 7] }

\* values of SUI_SECRET_KEY: unset (<<>>), a key in one of the three forms,
\* hex digits without the 0x prefix
EnvKeys ==
  { <<>> }
  \cup UNION { {SuiForm(k), HexForm(k), Base64Form(k)} : k \in Keys \cup WrongLengthKeys }
  \cup { HexEncode([i \in 1..KeyLen |-> 255]) }


\* (accepts keys that are too long)
KeyLengthOk_AtLeast(n) == n >= KeyLen

\* the length tests of lines 33, 42 and 62
KeyLengthOk(n) == n = KeyLen

\* lines 24-69: the keypair, or the throw that the outer catch turns into
\* exit 1; tried lists the decodings in the order they were run
CreateKeypair(s) ==
  LET sui == DecodeSuiPrivateKey(s)
      hex == BufferFromHex(SubSeq(s, Len(HexPrefix) + 1, Len(s)))
      b64 == BufferFromBase64(s)
  IN IF sui.ok /\ KeyLengthOk(Len(sui.secretKey))
     THEN [ok |-> TRUE, keypair |-> sui.secretKey, tried |-> <<"sui">>]
     ELSE IF StartsWith(s, HexPrefix)
     THEN IF KeyLengthOk(Len(hex))
          THEN [ok |-> TRUE, keypair |-> hex, tried |-> <<"sui", "hex">>]
          ELSE [ok |-> FALSE, keypair |-> <<>>, tried |-> <<"sui", "hex">>]
     ELSE IF KeyLengthOk(Len(b64))
          THEN [ok |-> TRUE, keypair |-> b64, tried |-> <<"sui", "base64">>]
          ELSE [ok |-> FALSE, keypair |-> <<>>, tried |-> <<"sui", "base64">>]

\* the outcome of lines 24-69 for every value the variable can have
KeypairTable == [s \in EnvKeys |-> CreateKeypair(s)]

----------------------------------------------------------------------------
(* scripts/walrus-upload.js : startup, uploadToWalrus, downloadFromWalrus, CLI *)

maxAttempts == 3

ScriptDir == <<"/","a","p","p","/","s","c","r","i","p","t","s","/">>

\* error instanceof RetryableWalrusClientError
IsRetryable(err) == err = "retryable"


\* (loop that lets one more attempt through)
UploadLoopGuard_OffByOne(attempts) == attempts <= maxAttempts

UploadLoopGuard(attempts) == attempts < maxAttempts


\* (constant delay)
UploadDelayMs_Flat(attempts) == 3000

UploadDelayMs(attempts) == attempts * 3000

\* (backs off after retryable errors only)
BackoffBeforeRetry_RetryableOnly(err, attempts) == IsRetryable(err) /\ attempts < maxAttempts

\* (waits after the last failure too)
BackoffBeforeRetry_Always(err, attempts) == TRUE

\* the test of line 136: it looks at the attempt count, not at the error
BackoffBeforeRetry(err, attempts) == attempts < maxAttempts

\* (resets the client after every error)
ResetOnError_Always(err) == <<Ev("reset")>>

\* the catch block's reaction to the error class, before any wait
ResetOnError(err) == IF IsRetryable(err) THEN <<Ev("reset")>> ELSE <<>>


\* (every exit reports success)
Exit_AlwaysZero(p, code) == [p EXCEPT !.pc = "exited", !.exitCode = 0]

Exit(p, code) == [p EXCEPT !.pc = "exited", !.exitCode = code]

\* an error thrown by uploadToWalrus / downloadFromWalrus: the CLI's .catch
\* prints it and exits 1 (lines 203-206, 216-219)
Throw(p, message) == Exit([p EXCEPT !.error = message], 1)


\* (only a missing result counts)
ResultMissing_UndefinedOnly(result) == ~result.defined

\* `!result || !result.blobId` (line 144)
ResultMissing(result) == ~result.defined \/ result.blobId = <<>>


\* (success without the result line)
ScriptUploadAfterLoop_NoResultLine(p) ==
  IF ~p.result.defined \/ p.result.blobId = <<>> THEN Exit(p, 1) ELSE Exit(p, 0)

\* lines 144-149 and the CLI's .then / .catch (lines 198-206)
ScriptUploadAfterLoop(p) ==
  IF ResultMissing(p.result)
  THEN Throw(p, "Upload failed after all retries")
  ELSE Exit([p EXCEPT !.stdout = @ \o
         << ConsoleLog2(<<"*"," ","W","a","l","r","u","s"," ","u","p","l","o","a","d"," ","s","u","c","c","e","s","s","f","u","l","!"," ","B","l","o","b"," ","I","D",":">>, p.result.blobId),
            <<"*"," ","U","p","l","o","a","d"," ","c","o","m","p","l","e","t","e","d"," ","s","u","c","c","e","s","s","f","u","l","l","y","!">>,
            ConsoleLog2(BlobIdPrefix, p.result.blobId) >>], 0)

\* the while condition of line 112 and the start of an attempt (lines 113-116)
ScriptUploadLoopHead(p, tr) ==
  IF UploadLoopGuard(p.attempts)
  THEN [p |-> [p EXCEPT !.pc = "writing", !.stdout = Append(@,
                 <<"*"," ","U","p","l","o","a","d"," ","a","t","t","e","m","p","t"," ">>
                 \o NatToStr(p.attempts + 1) \o <<"/">> \o NatToStr(maxAttempts) \o <<".",".",".">>)],
        t |-> Append(tr, Ev("writeBlob"))]
  ELSE [p |-> ScriptUploadAfterLoop(p), t |-> tr]

\* the catch block of lines 126-141
ScriptUploadCatch(p, tr, err) ==
  LET a == p.attempts + 1
      tr1 == Append(tr, Ev(err)) \o ResetOnError(err)
      p1 == [p EXCEPT !.attempts = a,
                      !.stdout = @ \o (IF IsRetryable(err)
                          THEN << <<"*"," ","R","e","t","r","y","a","b","l","e"," ","e","r","r","o","r"," ","d","e","t","e","c","t","e","d",","," ","r","e","s","e","t","t","i","n","g"," ","c","l","i","e","n","t",".",".",".">> >>
                          ELSE <<>>)]
  IN IF BackoffBeforeRetry(err, a)
     THEN [p |-> [p1 EXCEPT !.pc = "waiting", !.stdout = Append(@,
                    ConsoleLog2(ConsoleLog2(<<"*"," ","R","e","t","r","y","i","n","g"," ","i","n">>,
                                            NatToStr(UploadDelayMs(a) \div 1000)),
                                <<"s","e","c","o","n","d","s",".",".",".">>))],
           t |-> Append(tr1, WaitEv(UploadDelayMs(a)))]
     ELSE ScriptUploadLoopHead(p1, tr1)

\* lines 78-116: uploadToWalrus(filePath) up to its first await
ScriptUploadBegin(p, tr) ==
  IF p.arg \notin DOMAIN files
  THEN [p |-> Throw(p, "ENOENT"), t |-> tr]  \* readFileSync throws
  ELSE ScriptUploadLoopHead(
         [p EXCEPT !.fileContents = files[p.arg], !.stdout = @ \o
            << <<"*"," ","S","t","a","r","t","i","n","g"," ","W","a","l","r","u","s"," ","u","p","l","o","a","d",".",".",".">>,
               ConsoleLog2(ConsoleLog2(<<"*"," ","F","i","l","e"," ","l","o","a","d","e","d",":">>,
                                       NatToStr(Len(files[p.arg]))), <<"b","y","t","e","s">>),
               <<"*"," ","W","a","l","r","u","s","C","l","i","e","n","t"," ","c","r","e","a","t","e","d"," ","w","i","t","h"," ","u","p","l","o","a","d"," ","r","e","l","a","y">> >>],
         tr)

\* lines 157-181: downloadFromWalrus(blobId) up to its await
ScriptDownloadBegin(p, tr) ==
  [p |-> [p EXCEPT !.pc = "reading", !.stdout = Append(@,
            ConsoleLog2(<<"*"," ","S","t","a","r","t","i","n","g"," ","W","a","l","r","u","s"," ","d","o","w","n","l","o","a","d"," ","f","o","r"," ","b","l","o","b",":">>, p.arg))],
   t |-> Append(tr, Ev("readBlob"))]

\* join(__dirname, `downloaded-${arg}.bin`)
OutputPath(arg) == ScriptDir \o <<"d","o","w","n","l","o","a","d","e","d","-">> \o arg \o <<".","b","i","n">>

\* the module body: key check (lines 16-76) and the CLI dispatch (lines 193-225)
ProcStart(c) ==
  /\ proc[c].pc = "start"
  /\ LET p == proc[c]
         k == KeypairTable[secretKey]
         p0 == [p EXCEPT !.tried = k.tried, !.stdout = @ \o
                  << ConsoleLog2(<<"*"," ","S","e","c","r","e","t"," ","k","e","y"," ","l","e","n","g","t","h",":">>,
                                 NatToStr(Len(secretKey))),
                     ConsoleLog2(<<"*"," ","S","e","c","r","e","t"," ","k","e","y"," ","p","r","e","v","i","e","w",":">>,
                                 SubSeq(secretKey, 1, IF Len(secretKey) < 20 THEN Len(secretKey) ELSE 20)
                                 \o <<".",".",".">>) >>]
         r == IF secretKey = <<>>
              THEN [p |-> Exit(p, 1), t |-> trace[c]]
              ELSE IF ~k.ok
              THEN [p |-> Exit(p0, 1), t |-> trace[c]]
              ELSE LET q == [p0 EXCEPT !.keypair = k.keypair, !.stdout = Append(@,
                         <<"*"," ","K","e","y","p","a","i","r"," ","c","r","e","a","t","e","d"," ","s","u","c","c","e","s","s","f","u","l","l","y">>)]
                   IN IF p.command = "upload" /\ p.arg # <<>>
                      THEN ScriptUploadBegin(q, trace[c])
                      ELSE IF p.command = "download" /\ p.arg # <<>>
                      THEN ScriptDownloadBegin(q, trace[c])
                      ELSE [p |-> Exit([q EXCEPT !.stdout = @ \o
                              << <<"U","s","a","g","e",":">>,
                                 <<" "," ","n","o","d","e"," ","w","a","l","r","u","s","-","u","p","l","o","a","d",".","j","s"," ","u","p","l","o","a","d"," ","<","f","i","l","e","-","p","a","t","h",">">>,
                                 <<" "," ","n","o","d","e"," ","w","a","l","r","u","s","-","u","p","l","o","a","d",".","j","s"," ","d","o","w","n","l","o","a","d"," ","<","b","l","o","b","-","i","d",">">> >>], 1),
                            t |-> trace[c]]
     IN /\ proc' = [proc EXCEPT ![c] = r.p]
        /\ trace' = [trace EXCEPT ![c] = r.t]
  /\ UNCHANGED <<secretKey, svc, files, net, verify, standalone, contractModule>>

\* writeBlob settles: result assigned and break (lines 116-124), or catch
WriteBlobReturns(c) ==
  /\ proc[c].pc = "writing"
  /\ LET p == proc[c]
     IN \/ \E id \in NetBlobIds :
             /\ Assignable(id, p.fileContents)
             /\ net' = WriteFile(net, id, p.fileContents)
             /\ proc' = [proc EXCEPT ![c] = ScriptUploadAfterLoop(
                   [p EXCEPT !.result = [defined |-> TRUE, blobId |-> id],
                             !.stdout = Append(@, ConsoleLog2(
                                <<"*"," ","U","p","l","o","a","d"," ","s","u","c","c","e","e","d","e","d"," ","o","n"," ","a","t","t","e","m","p","t">>,
                                NatToStr(p.attempts + 1)))])]
             /\ trace' = [trace EXCEPT ![c] = Append(@, Ev("ok"))]
        \/ /\ net' = net              \* a result without blobId
           /\ proc' = [proc EXCEPT ![c] = ScriptUploadAfterLoop(
                   [p EXCEPT !.result = [defined |-> TRUE, blobId |-> <<>>]])]
           /\ trace' = [trace EXCEPT ![c] = Append(@, Ev("noid"))]
        \/ \E err \in {"retryable", "terminal"} :
             LET r == ScriptUploadCatch(p, trace[c], err)
             IN /\ net' = net
                /\ proc' = [proc EXCEPT ![c] = r.p]
                /\ trace' = [trace EXCEPT ![c] = r.t]
  /\ UNCHANGED <<secretKey, svc, files, verify, standalone, contractModule>>

\* the setTimeout of line 139 fires: back to the while condition
WaitElapses(c) ==
  /\ proc[c].pc = "waiting"
  /\ LET r == ScriptUploadLoopHead(proc[c], trace[c])
     IN /\ proc' = [proc EXCEPT ![c] = r.p]
        /\ trace' = [trace EXCEPT ![c] = r.t]
  /\ UNCHANGED <<secretKey, svc, files, net, verify, standalone, contractModule>>

\* readBlob settles (lines 181-189) and the CLI's .then / .catch (lines 209-219)
ReadBlobReturns(c) ==
  /\ proc[c].pc = "reading"
  /\ LET p == proc[c]
     IN \/ /\ p.arg \in DOMAIN net
           /\ LET q == [p EXCEPT !.fileContents = net[p.arg], !.stdout = Append(@,
                          ConsoleLog2(ConsoleLog2(<<"*"," ","W","a","l","r","u","s"," ","d","o","w","n","l","o","a","d"," ","s","u","c","c","e","s","s","f","u","l","!"," ","S","i","z","e",":">>,
                                                  NatToStr(Len(net[p.arg]))), <<"b","y","t","e","s">>))]
              IN \/ /\ files' = WriteFile(files, OutputPath(p.arg), net[p.arg])
                    /\ trace' = [trace EXCEPT ![c] = Append(@, Ev("ok"))]
                    /\ proc' = [proc EXCEPT ![c] = Exit([q EXCEPT !.stdout = @ \o
                          << <<"*"," ","D","o","w","n","l","o","a","d"," ","c","o","m","p","l","e","t","e","d"," ","s","u","c","c","e","s","s","f","u","l","l","y","!">>,
                             ConsoleLog2(FileSavedPrefix, OutputPath(p.arg)) >>], 0)]
                 \/ /\ files' = files            \* writeFileSync throws
                    /\ trace' = [trace EXCEPT ![c] = Append(@, Ev("ok")) \o <<Ev("fsError")>>]
                    /\ proc' = [proc EXCEPT ![c] = Throw(q, "EACCES")]
        \/ \E err \in {"retryable", "terminal"} \cup
                       (IF p.arg \in DOMAIN net THEN {} ELSE {"notFound"}) :
             /\ trace' = [trace EXCEPT ![c] = Append(@, Ev(err))]
             /\ files' = files
             /\ proc' = [proc EXCEPT ![c] = Throw(p, err)]
  /\ UNCHANGED <<secretKey, svc, net, verify, standalone, contractModule>>

----------------------------------------------------------------------------
(* lib/walrus : uploadToWalrus, downloadFromWalrus (service, via child process) *)

TempDir == <<"/","a","p","p","/","t","e","m","p","/">>

\* `upload-${Date.now()}-${Math.random().toString(36).substr(2, 9)}.tmp`
TempFile(ts, rnd) ==
  TempDir \o <<"u","p","l","o","a","d","-">> \o ts \o <<"-">> \o rnd \o <<".","t","m","p">>


\* (fallback identifier built with another prefix)
MockBlobId_OtherPrefix(ts, rnd) == <<"m","o","c","k","_","b","l","o","b","-">> \o ts \o <<"-">> \o rnd

\* `mock-blob-${Date.now()}-${Math.random().toString(36).substr(2, 9)}`
MockBlobId(ts, rnd) == MockPrefix \o ts \o <<"-">> \o rnd


\* (compares the whole identifier instead of its prefix)
IsMockBlobId_Whole(blobId) == blobId = MockPrefix

\* blobId.startsWith('mock-blob-')
IsMockBlobId(blobId) == StartsWith(blobId, MockPrefix)

\* exec(`node "${scriptPath}" <command> "${arg}"`): a fresh node process
Spawn(command, arg) == [NoProc EXCEPT !.pc = "start", !.command = command, !.arg = arg]

NoResponse ==
  [status |-> 0, body |-> <<>>, error |-> "", contentType |-> "",
   contentDisposition |-> <<>>, contentLength |-> <<>>]

NoCall ==
  [op |-> "none", pc |-> "idle", fileContents |-> <<>>, blobId |-> <<>>,
   tempFile |-> <<>>, ret |-> <<>>, data |-> <<>>, error |-> "",
   errorBlobId |-> <<>>, uploadedId |-> <<>>, response |-> NoResponse]

\* the catch block of uploadToWalrus (lines 58-65)
UploadFallback(s, ts, rnd) == [s EXCEPT !.pc = "returned", !.ret = MockBlobId(ts, rnd)]

\* lines 46-56: the blob id is read off the script's standard output
ExtractBlobId(stdout) ==
  LET blobIdLine == FindLine(stdout, BlobIdPrefix)
  IN IF blobIdLine = <<>> THEN [found |-> FALSE, blobId |-> <<>>]
     ELSE [found |-> TRUE, blobId |-> Trim(ReplaceFirst(blobIdLine[1], BlobIdPrefix))]

\* lines 88-96: the saved path is read off the script's standard output
ExtractFilePath(stdout) ==
  LET filePathLine == FindLine(stdout, FileSavedPrefix)
  IN IF filePathLine = <<>> THEN [found |-> FALSE, filePath |-> <<>>]
     ELSE [found |-> TRUE, filePath |-> Trim(ReplaceFirst(filePathLine[1], FileSavedPrefix))]

\* uploadToWalrus(fileContents) up to `await execAsync(command)` (lines 9-33)
SvcUploadStart(c) ==
  /\ svc[c].op = "upload" /\ svc[c].pc = "call"
  /\ \E ts \in Timestamps, rnd \in RandomSuffixes :
       \/ /\ TempFile(ts, rnd) \notin DOMAIN files     \* a name not in use
          /\ files' = WriteFile(files, TempFile(ts, rnd), svc[c].fileContents)
          /\ svc' = [svc EXCEPT ![c].pc = "exec", ![c].tempFile = TempFile(ts, rnd)]
          /\ proc' = [proc EXCEPT ![c] = Spawn("upload", TempFile(ts, rnd))]
          /\ trace' = trace
       \/ /\ files' = files                   \* writeFileSync throws
          /\ svc' = [svc EXCEPT ![c] = UploadFallback(svc[c], ts, rnd)]
          /\ proc' = proc
          /\ trace' = [trace EXCEPT ![c] = Append(@, Ev("fsError"))]
  /\ UNCHANGED <<secretKey, net, verify, standalone, contractModule>>

\* uploadToWalrus after execAsync settles (lines 33-65)
SvcUploadResume(c) ==
  /\ svc[c].op = "upload" /\ svc[c].pc = "exec"
  /\ proc[c].pc = "exited"
  /\ \E ts \in Timestamps, rnd \in RandomSuffixes :
       IF proc[c].exitCode # 0
       THEN /\ svc' = [svc EXCEPT ![c] = UploadFallback(svc[c], ts, rnd)]
            /\ files' = files
       ELSE /\ files' = Unlink(files, svc[c].tempFile)
            /\ LET x == ExtractBlobId(proc[c].stdout)
               IN svc' = [svc EXCEPT ![c] =
                     IF ~x.found THEN UploadFallback(svc[c], ts, rnd)
                     ELSE [svc[c] EXCEPT !.pc = "returned", !.ret = x.blobId,
                                         !.uploadedId = x.blobId]]
  /\ UNCHANGED <<secretKey, proc, trace, net, verify, standalone, contractModule>>

----------------------------------------------------------------------------
(* app/api/download/[blobId]/route.ts : GET *)

JsonResponse(message, status) == [NoResponse EXCEPT !.status = status, !.error = message]


\* (attachment named after the bare blob id)
FileResponse_BareName(blobId, fileContents) ==
  [NoResponse EXCEPT
     !.status = 200, !.body = fileContents,
     !.contentType = "application/octet-stream",
     !.contentDisposition =
        <<"a","t","t","a","c","h","m","e","n","t",";"," ","f","i","l","e","n","a","m","e","=","\"">>
        \o blobId \o <<"\"">>,
     !.contentLength = NatToStr(Len(fileContents))]

\* new NextResponse(fileContents, { headers }) (lines 32-38)
FileResponse(blobId, fileContents) ==
  [NoResponse EXCEPT
     !.status = 200, !.body = fileContents,
     !.contentType = "application/octet-stream",
     !.contentDisposition =
        <<"a","t","t","a","c","h","m","e","n","t",";"," ","f","i","l","e","n","a","m","e","=","\"","f","i","l","e","-">>
        \o blobId \o <<"\"">>,
     !.contentLength = NatToStr(Len(fileContents))]

\* a throw of downloadFromWalrus as its caller sees it: the route's catch
\* (lines 40-46) answers 500, any other caller gets the exception
\* (carried: the blobId as far as the error's message contains it)
DownloadThrows(s, message, carried) ==
  IF s.op = "get"
  THEN [s EXCEPT !.pc = "responded", !.error = message, !.errorBlobId = carried,
                 !.response = JsonResponse("Failed to download file", 500)]
  ELSE [s EXCEPT !.pc = "thrown", !.error = message, !.errorBlobId = carried]

\* a return of downloadFromWalrus as its caller sees it (route lines 29-38)
DownloadReturns(s, fileContents) ==
  IF s.op = "get"
  THEN [s EXCEPT !.pc = "responded", !.data = fileContents,
                 !.response = FileResponse(s.blobId, fileContents)]
  ELSE [s EXCEPT !.pc = "returned", !.data = fileContents]

\* downloadFromWalrus(blobId) up to `await execAsync(command)` (lines 68-82)
DownloadFromWalrusCall(c) ==
  IF IsMockBlobId(svc[c].blobId)
  THEN /\ svc' = [svc EXCEPT ![c] = DownloadThrows(svc[c], "Cannot download mock blob ID", <<>>)]
       /\ proc' = proc
  ELSE /\ svc' = [svc EXCEPT ![c].pc = "exec"]
       /\ proc' = [proc EXCEPT ![c] = Spawn("download", svc[c].blobId)]

SvcDownloadStart(c) ==
  /\ svc[c].op = "download" /\ svc[c].pc = "call"
  /\ DownloadFromWalrusCall(c)
  /\ UNCHANGED <<secretKey, trace, files, net, verify, standalone, contractModule>>

\* GET up to its await (lines 8-29)
GetStart(c) ==
  /\ svc[c].op = "get" /\ svc[c].pc = "call"
  /\ IF svc[c].blobId = <<>>
     THEN /\ svc' = [svc EXCEPT ![c].pc = "responded",
                                ![c].response = JsonResponse("Blob ID is required", 400)]
          /\ proc' = proc
     ELSE IF IsMockBlobId(svc[c].blobId)
     THEN /\ svc' = [svc EXCEPT ![c].pc = "responded",
                                ![c].response = JsonResponse("Mock blob ID - file not available for download", 404)]
          /\ proc' = proc
     ELSE DownloadFromWalrusCall(c)
  /\ UNCHANGED <<secretKey, trace, files, net, verify, standalone, contractModule>>

\* downloadFromWalrus after execAsync settles (lines 82-112), then its caller
SvcDownloadResume(c) ==
  /\ svc[c].op \in {"download", "get"} /\ svc[c].pc = "exec"
  /\ proc[c].pc = "exited"
  /\ LET x == ExtractFilePath(proc[c].stdout)
     IN IF proc[c].exitCode # 0
        THEN /\ svc' = [svc EXCEPT ![c] = DownloadThrows(svc[c], "Command failed", svc[c].blobId)]
             /\ files' = files
        ELSE IF ~x.found
        THEN /\ svc' = [svc EXCEPT ![c] = DownloadThrows(svc[c], "Could not find downloaded file path", <<>>)]
             /\ files' = files
        ELSE IF x.filePath \notin DOMAIN files
        THEN /\ svc' = [svc EXCEPT ![c] = DownloadThrows(svc[c], "ENOENT", <<>>)]
             /\ files' = files
        ELSE /\ svc' = [svc EXCEPT ![c] = DownloadReturns(svc[c], files[x.filePath])]
             /\ files' = Unlink(files, x.filePath)
  /\ UNCHANGED <<secretKey, proc, trace, net, verify, standalone, contractModule>>

\* the application downloads what it has just uploaded
CallerDownloadsResult(c) ==
  /\ svc[c].op = "upload" /\ svc[c].pc = "returned"
  /\ \E op \in {"download", "get"} :
       svc' = [svc EXCEPT ![c].op = op, ![c].pc = "call", ![c].blobId = svc[c].ret]
  /\ UNCHANGED <<secretKey, proc, trace, files, net, verify, standalone, contractModule>>

----------------------------------------------------------------------------
(* upload+verify script : main *)

TestPdf == <<".","/","t","e","s","t",".","p","d","f">>

maxRetrievalAttempts == 3

\* the outcome of the integrity checks of lines 119-160, "skipped" for
\* a check that was not reached
NoIntegrity ==
  [size |-> "skipped", firstBytes |-> "skipped", header |-> "skipped",
   checksum |-> "skipped", warnings |-> 0]

NoVerify ==
  [pc |-> "idle", pdfContents |-> <<>>, attempts |-> 0, result |-> NoResult,
   retrievalAttempts |-> 0, retrieved |-> FALSE, retrievedContents |-> <<>>,
   integrity |-> NoIntegrity, trace |-> <<>>]

\* the number of leading bytes compared one by one (line 127)
CompareWindow == 50

PdfMagic == <<37, 80, 68, 70>>      \* '%PDF'

RECURSIVE SumBytes(_)
SumBytes(bytes) == IF bytes = <<>> THEN 0 ELSE Head(bytes) + SumBytes(Tail(bytes))

PassFail(b) == IF b THEN "pass" ELSE "fail"

\* lines 119-160: size, first bytes, header, additive checksum
IntegrityCheck(pdfContents, retrievedContents) ==
  LET sizeMatch == Len(retrievedContents) = Len(pdfContents)
      window == IF Len(pdfContents) < CompareWindow THEN Len(pdfContents) ELSE CompareWindow
      bytesMatch == \A i \in 1..window : pdfContents[i] = retrievedContents[i]
      headerIntact == StartsWith(pdfContents, PdfMagic)
      sumMatch == SumBytes(pdfContents) = SumBytes(retrievedContents)
  IN IF ~sizeMatch THEN [NoIntegrity EXCEPT !.size = "fail"]
     ELSE IF ~bytesMatch THEN [NoIntegrity EXCEPT !.size = "pass", !.firstBytes = "fail"]
     ELSE [size |-> "pass", firstBytes |-> "pass", header |-> PassFail(headerIntact),
           checksum |-> PassFail(sumMatch),
           warnings |-> (IF headerIntact THEN 0 ELSE 1) + (IF sumMatch THEN 0 ELSE 1)]

IntegrityMismatch(integrity) ==
  "fail" \in {integrity.size, integrity.firstBytes, integrity.checksum}

\* the while condition of line 51 and the writeBlob call of line 55;
\* past the loop, the check of lines 86-96
MainUploadLoopHead(v) ==
  IF v.attempts < maxAttempts
  THEN [v EXCEPT !.pc = "writing", !.trace = Append(@, Ev("writeBlob"))]
  ELSE IF ~v.result.defined \/ v.result.blobId = <<>>
  THEN [v EXCEPT !.pc = "returned"]
  ELSE [v EXCEPT !.pc = "propagating", !.trace = Append(@, WaitEv(8000))]

\* the break of line 64 leaves the loop whatever attempts is
MainUploadBreak(v) ==
  IF ~v.result.defined \/ v.result.blobId = <<>>
  THEN [v EXCEPT !.pc = "returned"]
  ELSE [v EXCEPT !.pc = "propagating", !.trace = Append(@, WaitEv(8000))]

\* the catch block of lines 66-82
MainUploadCatch(v, err) ==
  LET a == v.attempts + 1
      v1 == [v EXCEPT !.attempts = a, !.trace = Append(@, Ev(err)) \o ResetOnError(err)]
  IN IF a < maxAttempts
     THEN [v1 EXCEPT !.pc = "waiting", !.trace = Append(@, WaitEv(a * 3000))]
     ELSE MainUploadLoopHead(v1)

\* what readBlob may hand back for stored bytes: the bytes themselves, or
\* bytes altered on the way (one byte lost, the first or the last byte changed)
ReadResults(stored) ==
  {stored} \cup
  (IF stored = <<>> THEN {}
   ELSE { SubSeq(stored, 1, Len(stored) - 1),
          [stored EXCEPT ![1] = 255 - @],
          [stored EXCEPT ![Len(stored)] = 255 - @] })

\* the while condition of line 103 and the readBlob call of line 109
MainRetrievalLoopHead(v) ==
  IF v.retrievalAttempts < maxRetrievalAttempts
  THEN [v EXCEPT !.pc = "reading", !.trace = Append(@, Ev("readBlob"))]
  ELSE [v EXCEPT !.pc = "returned"]


\* (the delay of the other script)
RetrievalDelayMs_Three(retrievalAttempts) == retrievalAttempts * 3000

\* the retrieval delay of line 177
RetrievalDelayMs(retrievalAttempts) == retrievalAttempts * 5000

\* the catch block of lines 165-184
MainRetrievalCatch(v, err) ==
  LET a == v.retrievalAttempts + 1
      v1 == [v EXCEPT !.retrievalAttempts = a, !.trace = Append(@, Ev(err)) \o ResetOnError(err)]
  IN IF a < maxRetrievalAttempts
     THEN [v1 EXCEPT !.pc = "rwaiting", !.trace = Append(@, WaitEv(RetrievalDelayMs(a)))]
     ELSE MainRetrievalLoopHead(v1)

\* lines 7-55
MainStart ==
  /\ verify.pc = "start"
  /\ verify' = IF TestPdf \notin DOMAIN files
               THEN [verify EXCEPT !.pc = "returned"]
               ELSE MainUploadLoopHead([verify EXCEPT !.pdfContents = files[TestPdf]])
  /\ UNCHANGED <<secretKey, svc, proc, trace, files, net, standalone, contractModule>>

MainWriteBlobReturns ==
  /\ verify.pc = "writing"
  /\ \/ \E id \in NetBlobIds :
          /\ Assignable(id, verify.pdfContents)
          /\ net' = WriteFile(net, id, verify.pdfContents)
          /\ verify' = MainUploadBreak(
                [verify EXCEPT !.result = [defined |-> TRUE, blobId |-> id],
                               !.trace = Append(@, Ev("ok"))])
     \/ /\ net' = net
        /\ verify' = MainUploadBreak(
                [verify EXCEPT !.result = [defined |-> TRUE, blobId |-> <<>>],
                               !.trace = Append(@, Ev("noid"))])
     \/ \E err \in {"retryable", "terminal"} :
          /\ net' = net
          /\ verify' = MainUploadCatch(verify, err)
  /\ UNCHANGED <<secretKey, svc, proc, trace, files, standalone, contractModule>>

MainWaitElapses ==
  /\ verify.pc = "waiting"
  /\ verify' = MainUploadLoopHead(verify)
  /\ UNCHANGED <<secretKey, svc, proc, trace, files, net, standalone, contractModule>>

\* the 8 s propagation wait of line 96 is over: the retrieval loop starts
MainPropagationElapses ==
  /\ verify.pc = "propagating"
  /\ verify' = MainRetrievalLoopHead(verify)
  /\ UNCHANGED <<secretKey, svc, proc, trace, files, net, standalone, contractModule>>


\* (a mismatch is thrown into the retrieval catch)
MainAfterChecks_ThrowOnMismatch(v, integrity) ==
  IF IntegrityMismatch(integrity)
  THEN MainRetrievalCatch([v EXCEPT !.integrity = integrity], "terminal")
  ELSE [v EXCEPT !.pc = "returned", !.retrieved = TRUE, !.integrity = integrity]

\* the checks only log; the break of line 163 leaves the loop
MainAfterChecks(v, integrity) ==
  [v EXCEPT !.pc = "returned", !.retrieved = TRUE, !.integrity = integrity]

\* readBlob settles: lines 109-163, or the catch of lines 165-184
MainReadBlobReturns ==
  /\ verify.pc = "reading"
  /\ \/ /\ verify.result.blobId \in DOMAIN net
        /\ \E retrievedContents \in ReadResults(net[verify.result.blobId]) :
             LET v == [verify EXCEPT !.retrievedContents = retrievedContents,
                                     !.trace = Append(@, Ev("ok"))]
             IN \/ /\ files' = WriteFile(files, <<"d","o","w","n","l","o","a","d","e","d","_","c","l","e","a","n",".","p","d","f">>,
                                          retrievedContents)
                   /\ verify' = MainAfterChecks(v, IntegrityCheck(verify.pdfContents, retrievedContents))
                \/ /\ files' = files             \* writeFileSync throws inside the try
                   /\ verify' = MainRetrievalCatch(v, "fsError")
     \/ \E err \in {"retryable", "terminal"} :
          /\ files' = files
          /\ verify' = MainRetrievalCatch(verify, err)
  /\ UNCHANGED <<secretKey, svc, proc, trace, net, standalone, contractModule>>

MainRetrievalWaitElapses ==
  /\ verify.pc = "rwaiting"
  /\ verify' = MainRetrievalLoopHead(verify)
  /\ UNCHANGED <<secretKey, svc, proc, trace, files, net, standalone, contractModule>>

----------------------------------------------------------------------------
(* standalone retrieval script : downloadBlobById, attemptDownload *)

\* the blob id of line 64
StandaloneBlobId == <<"S","x","B">>

NumApproaches == 2

maxRetrievalAttemptsStandalone == 2

NoStandalone ==
  [pc |-> "idle", approach |-> 0, retrievalAttempts |-> 0, succeeded |-> FALSE,
   lastError |-> [message |-> "", blobId |-> <<>>], trace |-> <<>>]

\* attemptDownload up to its first await (lines 60-70)
AttemptDownloadBegin(d, approach) ==
  [d EXCEPT !.pc = "checking", !.approach = approach, !.retrievalAttempts = 0,
            !.trace = Append(@, Ev("getBlob"))]


\* (gives up after the first configuration)
ApproachFailed_GivesUp(d, message, carried) ==
  [d EXCEPT !.pc = "returned", !.lastError = [message |-> message, blobId |-> carried]]

\* the catch of downloadBlobById (lines 51-57): next approach, or give up
ApproachFailed(d, message, carried) ==
  LET d1 == [d EXCEPT !.lastError = [message |-> message, blobId |-> carried]]
  IN IF d.approach < NumApproaches
     THEN AttemptDownloadBegin(d1, d.approach + 1)
     ELSE [d1 EXCEPT !.pc = "returned"]

\* the while condition of line 79 and the readBlob call of line 84
StandaloneLoopHead(d) ==
  IF d.retrievalAttempts < maxRetrievalAttemptsStandalone
  THEN [d EXCEPT !.pc = "reading", !.trace = Append(@, Ev("readBlob"))]
  ELSE [d EXCEPT !.pc = "returned"]     \* attemptDownload falls off its end

\* the retrieval delay of line 126
StandaloneDelayMs(retrievalAttempts) == retrievalAttempts * 3000

\* the catch block of lines 114-132
StandaloneCatch(d, err) ==
  LET a == d.retrievalAttempts + 1
      d1 == [d EXCEPT !.retrievalAttempts = a, !.trace = Append(@, Ev(err)) \o ResetOnError(err)]
  IN IF a < maxRetrievalAttemptsStandalone
     THEN [d1 EXCEPT !.pc = "waiting", !.trace = Append(@, WaitEv(StandaloneDelayMs(a)))]
     ELSE ApproachFailed(d1, "All retrieval attempts failed for blob ID", StandaloneBlobId)

StandaloneStart ==
  /\ standalone.pc = "start"
  /\ standalone' = AttemptDownloadBegin(standalone, 1)
  /\ UNCHANGED <<secretKey, svc, proc, trace, files, net, verify, contractModule>>

\* getBlob settles; its failure is only logged (lines 68-74)
GetBlobReturns ==
  /\ standalone.pc = "checking"
  /\ \E e \in {"getBlobOk", "getBlobFailed"} :
       /\ e = "getBlobOk" => StandaloneBlobId \in DOMAIN net
       /\ standalone' = StandaloneLoopHead([standalone EXCEPT !.trace = Append(@, Ev(e))])
  /\ UNCHANGED <<secretKey, svc, proc, trace, files, net, verify, contractModule>>

\* readBlob settles: lines 84-112, or the catch of lines 114-132
StandaloneReadBlobReturns ==
  /\ standalone.pc = "reading"
  /\ \/ /\ StandaloneBlobId \in DOMAIN net
        /\ \/ /\ files' = WriteFile(files, <<"d","o","w","n","l","o","a","d","e","d","_","t","e","s","t",".","p","d","f">>,
                                    net[StandaloneBlobId])
              /\ standalone' = [standalone EXCEPT !.pc = "returned", !.succeeded = TRUE,
                                                  !.trace = Append(@, Ev("ok"))]
           \/ /\ files' = files                 \* writeFileSync throws inside the try
              /\ standalone' = StandaloneCatch([standalone EXCEPT !.trace = Append(@, Ev("ok"))], "fsError")
     \/ \E err \in {"retryable", "terminal"} :
          /\ files' = files
          /\ standalone' = StandaloneCatch(standalone, err)
  /\ UNCHANGED <<secretKey, svc, proc, trace, net, verify, contractModule>>

StandaloneWaitElapses ==
  /\ standalone.pc = "waiting"
  /\ standalone' = StandaloneLoopHead(standalone)
  /\ UNCHANGED <<secretKey, svc, proc, trace, files, net, verify, contractModule>>

----------------------------------------------------------------------------
(* lib/contract : getContract, getContractWithSigner, ContractService *)

ZeroAddress == <<"0","x","0">>
Addresses == { <<"0","x","C","1">> }
Signers == { "alice", "bob" }

\* a value returned to the caller, by JavaScript type
NoValue == [type |-> "undefined", list |-> <<>>, bool |-> FALSE, num |-> 0]
ListValue(l) == [NoValue EXCEPT !.type = "array", !.list = l]
BoolValue(b) == [NoValue EXCEPT !.type = "boolean", !.bool = b]
NumValue(n) == [NoValue EXCEPT !.type = "number", !.num = n]
ObjectValue(n) == [NoValue EXCEPT !.type = "object", !.num = n]

\* one method call on a ContractService: log lists the calls made on the
\* signer, the provider and the contract handle, in order
NoOp ==
  [method |-> "", signer |-> "", pc |-> "idle", log |-> <<>>, error |-> <<>>,
   gasEstimate |-> -1, gasLimit |-> -1, ret |-> NoValue]

\* calls made on the module and on its services so far
CallBudgetLeft(m) == Len(m.calls) + m.nOps < MaxCalls

\* `let contract = null`: handle 0 is null, handle n is the n-th Contract
\* object built (objects[n]); CONTRACT_ADDRESS is <<>> when it is not set
NoContractModule ==
  [loaded |-> FALSE, CONTRACT_ADDRESS |-> <<>>, contract |-> 0,
   objects |-> <<>>, calls |-> <<>>, services |-> <<>>,
   nOps |-> 0, op |-> NoOp, opService |-> 0]

\* new ethers.Contract(target, abi, runner)
NewContract(m, target, runner) ==
  [m EXCEPT !.objects = Append(@, [target |-> target, runner |-> runner])]


\* (builds a handle on every call)
CacheIsEmpty_Always(contract) == TRUE

\* `if (!contract)` (line 43)
CacheIsEmpty(contract) == contract = 0

\* getContract() (lines 42-56): the module after the call, and the handle
\* returned
GetContractCall(m) ==
  LET m1 == IF CacheIsEmpty(m.contract)
            THEN LET built == NewContract(m,
                                IF m.CONTRACT_ADDRESS = <<>> THEN ZeroAddress ELSE m.CONTRACT_ADDRESS,
                                "provider")
                 IN [built EXCEPT !.contract = Len(built.objects)]
            ELSE m
  IN [m |-> [m1 EXCEPT !.calls = Append(@,
               [fn |-> "getContract", signer |-> "", cachedBefore |-> m.contract,
                cachedAfter |-> m1.contract, returned |-> m1.contract])],
      returned |-> m1.contract]

\* getContractWithSigner(signer) (lines 58-66)
GetContractWithSignerCall(m, signer) ==
  LET m1 == NewContract(m,
              IF m.CONTRACT_ADDRESS = <<>> THEN ZeroAddress ELSE m.CONTRACT_ADDRESS, signer)
  IN [m |-> [m1 EXCEPT !.calls = Append(@,
               [fn |-> "getContractWithSigner", signer |-> signer, cachedBefore |-> m.contract,
                cachedAfter |-> m1.contract, returned |-> Len(m1.objects)])],
      returned |-> Len(m1.objects)]

GetContract ==
  /\ contractModule.loaded /\ CallBudgetLeft(contractModule)
  /\ contractModule' = GetContractCall(contractModule).m
  /\ UNCHANGED <<secretKey, svc, proc, trace, files, net, verify, standalone>>

GetContractWithSigner ==
  /\ contractModule.loaded /\ CallBudgetLeft(contractModule)
  /\ \E signer \in Signers :
       contractModule' = GetContractWithSignerCall(contractModule, signer).m
  /\ UNCHANGED <<secretKey, svc, proc, trace, files, net, verify, standalone>>

\* new ContractService(signer?) (lines 73-76); "" stands for no signer
NewContractService ==
  /\ contractModule.loaded /\ CallBudgetLeft(contractModule)
  /\ \E signer \in Signers \cup {""} :
       LET r == IF signer # "" THEN GetContractWithSignerCall(contractModule, signer)
                ELSE GetContractCall(contractModule)
       IN contractModule' = [r.m EXCEPT !.services = Append(@,
                                [signer |-> signer, contract |-> r.returned])]
  /\ UNCHANGED <<secretKey, svc, proc, trace, files, net, verify, standalone>>

----------------------------------------------------------------------------
(* ContractService : the methods (lines 78-395) *)

SignerRequired == <<"S","i","g","n","e","r"," ","r","e","q","u","i","r","e","d"," ","f","o","r"," ">>

\* the wording that ends each method's 'Signer required for ...' message
SignerRequiredFor(method) ==
  CASE method = "createItem" -> <<"c","r","e","a","t","i","n","g"," ","i","t","e","m","s">>
    [] method = "purchaseItem" -> <<"p","u","r","c","h","a","s","i","n","g"," ","i","t","e","m","s">>
    [] method = "rentItem" -> <<"r","e","n","t","i","n","g"," ","i","t","e","m","s">>
    [] method = "updateItemPrices" -> <<"u","p","d","a","t","i","n","g"," ","p","r","i","c","e","s">>
    [] method = "deactivateItem" -> <<"d","e","a","c","t","i","v","a","t","i","n","g"," ","i","t","e","m","s">>

StateChangingMethods ==
  {"createItem", "purchaseItem", "rentItem", "updateItemPrices", "deactivateItem"}

ReadMethods ==
  {"getItem", "getRental", "getActiveItems", "getUserItems", "getUserRentals",
   "getItemRenters", "getOwnershipHistory", "hasActiveRental", "getTotalItems",
   "getTotalRentals"}

\* messages of errors the provider or the contract may raise
MissingTrieNode == <<"m","i","s","s","i","n","g"," ","t","r","i","e"," ","n","o","d","e">>
InternalJsonRpc == <<"I","n","t","e","r","n","a","l"," ","J","S","O","N","-","R","P","C"," ","e","r","r","o","r">>
Reverted == <<"e","x","e","c","u","t","i","o","n"," ","r","e","v","e","r","t","e","d">>
NetworkErrors == { <<"R","P","C",":"," ","m","i","s","s","i","n","g"," ","t","r","i","e"," ","n","o","d","e"," ","0","f">>, <<"I","n","t","e","r","n","a","l"," ","J","S","O","N","-","R","P","C"," ","e","r","r","o","r",".">>, Reverted }

TestnetIssue == <<"0","G"," ","t","e","s","t","n","e","t"," ","i","s"," ","e","x","p","e","r","i","e","n","c","i","n","g"," ","i","s","s","u","e","s","."," ","P","l","e","a","s","e"," ","t","r","y"," ","a","g","a","i","n"," ","l","a","t","e","r"," ","o","r"," ","c","o","n","t","a","c","t"," ","0","G"," ","s","u","p","p","o","r","t",".">>
ValidationFailed == <<"C","o","n","t","r","a","c","t"," ","v","a","l","i","d","a","t","i","o","n"," ","f","a","i","l","e","d",":"," ">>
NoItemId == <<"F","a","i","l","e","d"," ","t","o"," ","g","e","t"," ","i","t","e","m"," ","I","D"," ","f","r","o","m"," ","t","r","a","n","s","a","c","t","i","o","n">>

\* gas estimates the node may answer (BigInt)
GasEstimates == { 21001, 100000 }

\* ids of the ItemCreated events found in the receipt's logs
ReceiptItemIds == { <<>>, <<7>> }

Call(kind, fn, ok) == [kind |-> kind, fn |-> fn, ok |-> ok, gasLimit |-> -1]

OpThrows(op, message) == [op EXCEPT !.pc = "thrown", !.error = message]
OpReturns(op, value) == [op EXCEPT !.pc = "returned", !.ret = value]
OpDone(op) == op.pc \in {"returned", "thrown"}


\* (no buffer on top of the estimate)
GasLimit_NoBuffer(gasEstimate) == gasEstimate

\* gasEstimate * BigInt(120) / BigInt(100) (line 163)
GasLimit(gasEstimate) == (gasEstimate * 120) \div 100


\* (the guard only protects createItem)
MissingSigner_CreateOnly(method, signer) == method = "createItem" /\ signer = ""

\* `if (!this.signer)` at the head of a state-changing method
MissingSigner(method, signer) == signer = ""

\* error.message.includes('missing trie node') ||
\* error.message.includes('Internal JSON-RPC error') (line 153)
IsNetworkIssue(message) == Includes(message, MissingTrieNode) \/ Includes(message, InternalJsonRpc)

\* createItem (lines 79-208): the continuations of op at its next await
CreateItemStep(op) ==
  LET did(kind, fn, ok) == [op EXCEPT !.log = Append(@, Call(kind, fn, ok))]
  IN CASE op.pc = "entry" ->
            IF MissingSigner(op.method, op.signer)
            THEN { OpThrows(op, SignerRequired \o SignerRequiredFor(op.method)) }
            ELSE { [op EXCEPT !.pc = "getAddress"] }
       [] op.pc = "getAddress" ->          \* line 97
            { [did("signer", "getAddress", TRUE) EXCEPT !.pc = "getNetwork"],
              OpThrows(did("signer", "getAddress", FALSE), Reverted) }
       [] op.pc = "getNetwork" ->          \* line 100
            { [did("provider", "getNetwork", TRUE) EXCEPT !.pc = "getBalance"],
              OpThrows(did("provider", "getNetwork", FALSE), Reverted) }
       [] op.pc = "getBalance" ->          \* lines 104-111: failure is only warned about
            { [did("provider", "getBalance", ok) EXCEPT !.pc = "getCode"] : ok \in BOOLEAN }
       [] op.pc = "getCode" ->             \* lines 119-129: '0x' throws into the same catch
            { [[did("provider", "getCode", ok) EXCEPT !.pc = "estimateGas"]
                 EXCEPT !.log = IF ok THEN Append(@, Call("result", code, TRUE)) ELSE @] :
                   ok \in BOOLEAN, code \in {"0x", "0x60"} }
       [] op.pc = "estimateGas" ->         \* lines 133-166
            { [did("call", "createItem.estimateGas", TRUE)
                 EXCEPT !.pc = "staticCall", !.gasEstimate = g, !.gasLimit = GasLimit(g)] :
                   g \in GasEstimates }
            \cup
            { OpThrows(did("call", "createItem.estimateGas", FALSE),
                       IF IsNetworkIssue(e) THEN TestnetIssue ELSE e) : e \in NetworkErrors }
       [] op.pc = "staticCall" ->          \* lines 169-181
            { [did("call", "createItem.staticCall", TRUE) EXCEPT !.pc = "send"],
              OpThrows(did("call", "createItem.staticCall", FALSE), ValidationFailed \o Reverted) }
       [] op.pc = "send" ->                \* lines 183-190
            LET sent(ok) == [op EXCEPT !.log = Append(@,
                               [Call("send", "createItem", ok) EXCEPT !.gasLimit = op.gasLimit])]
            IN { [sent(TRUE) EXCEPT !.pc = "wait"], OpThrows(sent(FALSE), Reverted) }
       [] op.pc = "wait" ->                \* lines 192-207
            { OpThrows(did("wait", "tx.wait", FALSE), Reverted) }
            \cup
            { IF ids = <<>> THEN OpThrows(did("wait", "tx.wait", TRUE), NoItemId)
              ELSE OpReturns(did("wait", "tx.wait", TRUE), NumValue(ids[1])) :
                ids \in ReceiptItemIds }

\* purchaseItem, rentItem, updateItemPrices, deactivateItem (lines 211-267)
TransactionStep(op) ==
  LET did(kind, fn, ok) == [op EXCEPT !.log = Append(@, Call(kind, fn, ok))]
  IN CASE op.pc = "entry" ->
            IF MissingSigner(op.method, op.signer)
            THEN { OpThrows(op, SignerRequired \o SignerRequiredFor(op.method)) }
            ELSE { [op EXCEPT !.pc = IF op.method = "rentItem" THEN "getAddress" ELSE "send"] }
       [] op.pc = "getAddress" ->          \* line 237
            { [did("signer", "getAddress", TRUE) EXCEPT !.pc = "send"],
              OpThrows(did("signer", "getAddress", FALSE), Reverted) }
       [] op.pc = "send" ->
            { [did("send", op.method, TRUE) EXCEPT !.pc = "wait"],
              OpThrows(did("send", op.method, FALSE), Reverted) }
       [] op.pc = "wait" ->
            { OpReturns(did("wait", "tx.wait", TRUE), NoValue),
              OpThrows(did("wait", "tx.wait", FALSE), Reverted) }


\* (getItem falls back as well)
CatchesReadError_AlsoGetItem(method) ==
  method \in {"getActiveItems", "getUserItems", "getUserRentals", "hasActiveRental",
              "getTotalItems", "getTotalRentals", "getItem"}

\* the read methods whose contract call sits inside try / catch
CatchesReadError(method) ==
  method \in {"getActiveItems", "getUserItems", "getUserRentals", "hasActiveRental",
              "getTotalItems", "getTotalRentals"}

\* what the catch block of a read method returns
ReadFallback(method) ==
  CASE method \in {"getActiveItems", "getUserItems", "getUserRentals"} -> ListValue(<<>>)
    [] method = "hasActiveRental" -> BoolValue(FALSE)
    [] method \in {"getTotalItems", "getTotalRentals"} -> NumValue(0)
    [] OTHER -> NoValue

\* what the contract may answer to a read, after the method's conversion
ReadAnswers(method) ==
  CASE method \in {"getItem", "getRental"} -> { ObjectValue(1) }
    [] method \in {"getActiveItems", "getUserItems", "getUserRentals",
                   "getItemRenters", "getOwnershipHistory"} -> { ListValue(<<>>), ListValue(<<1>>) }
    [] method = "hasActiveRental" -> { BoolValue(FALSE), BoolValue(TRUE) }
    [] method \in {"getTotalItems", "getTotalRentals"} -> { NumValue(0), NumValue(2) }

\* the read methods (lines 270-395)
ReadStep(op) ==
  LET did(ok) == [op EXCEPT !.log = Append(@, Call("call", op.method, ok))]
  IN { OpReturns(did(TRUE), v) : v \in ReadAnswers(op.method) }
     \cup
     { IF CatchesReadError(op.method)
       THEN OpReturns(did(FALSE), ReadFallback(op.method))
       ELSE OpThrows(did(FALSE), e) : e \in {Reverted} }

MethodStep(op) ==
  IF op.method = "createItem" THEN CreateItemStep(op)
  ELSE IF op.method \in StateChangingMethods THEN TransactionStep(op)
  ELSE ReadStep(op)

\* the ways a method call can end, every await followed to the end
RECURSIVE MethodRuns(_)
MethodRuns(op) ==
  IF OpDone(op) THEN {op} ELSE UNION { MethodRuns(next) : next \in MethodStep(op) }

\* every method called on a service built with / without a signer
MethodOutcomes ==
  [method \in StateChangingMethods \cup ReadMethods |->
     [signer \in Signers \cup {""} |->
        MethodRuns([NoOp EXCEPT !.method = method, !.signer = signer, !.pc = "entry"])]]

MethodCall(methods) ==
  /\ contractModule.loaded /\ CallBudgetLeft(contractModule)
  /\ \E s \in DOMAIN contractModule.services, method \in methods :
       \E op \in MethodOutcomes[method][contractModule.services[s].signer] :
         contractModule' = [contractModule EXCEPT !.nOps = @ + 1, !.op = op, !.opService = s]
  /\ UNCHANGED <<secretKey, svc, proc, trace, files, net, verify, standalone>>

CreateItem == MethodCall({"createItem"})

SendTransaction == MethodCall(StateChangingMethods \ {"createItem"})

ReadContract == MethodCall(ReadMethods)

----------------------------------------------------------------------------
(* Initial states and next-state relation *)

\* a PDF longer than the byte-by-byte comparison reaches
LongPdf == PdfMagic \o [i \in 1..(CompareWindow - 3) |-> 0]

LocalFile == <<"/","a","p","p","/","i","n",".","b","i","n">>

InitialNets == { EmptyMap } \cup { WriteFile(EmptyMap, StandaloneBlobId, b) : b \in ByteSeqs }

\* blob ids a caller may ask for: network ids, mock ids, the empty string
RequestIds ==
  NetBlobIds \cup {MockBlobId(ts, rnd) : ts \in Timestamps, rnd \in RandomSuffixes} \cup { <<>> }

\* the key of a deployed service: a good one, none, one of a wrong length
ServiceKeys ==
  { SuiForm([i \in 1..KeyLen |-> 255]), <<>>, HexForm([i \in 1..(KeyLen - 1) |-> 255]) }

InitialCalls ==
       { [NoCall EXCEPT !.op = "upload", !.pc = "call", !.fileContents = b] : b \in ByteSeqs }
  \cup { [NoCall EXCEPT !.op = op, !.pc = "call", !.blobId = id] :
            op \in {"download", "get"}, id \in RequestIds }

InitService ==
  /\ secretKey \in ServiceKeys
  /\ net \in InitialNets
  /\ files = EmptyMap
  /\ \E call \in InitialCalls : svc = [c \in CallIds |-> IF c = 1 THEN call ELSE NoCall]
  /\ proc = [c \in CallIds |-> NoProc]
  /\ trace = [c \in CallIds |-> <<>>]
  /\ verify = NoVerify
  /\ standalone = NoStandalone
  /\ contractModule = NoContractModule

\* the script run from a shell: node walrus-upload.js <command> <arg>
InitCli ==
  /\ secretKey \in EnvKeys
  /\ net \in InitialNets
  /\ \E b \in ByteSeqs : files = WriteFile(EmptyMap, LocalFile, b)
  /\ svc = [c \in CallIds |-> IF c = 1 THEN [NoCall EXCEPT !.op = "cli", !.pc = "shell"] ELSE NoCall]
  /\ \E command \in {"upload", "download", "help"}, arg \in {<<>>, LocalFile, StandaloneBlobId} :
       proc = [c \in CallIds |-> IF c = 1 THEN Spawn(command, arg) ELSE NoProc]
  /\ trace = [c \in CallIds |-> <<>>]
  /\ verify = NoVerify
  /\ standalone = NoStandalone
  /\ contractModule = NoContractModule

InitVerify ==
  /\ secretKey = <<>>
  /\ net = EmptyMap
  /\ files \in { EmptyMap } \cup { WriteFile(EmptyMap, TestPdf, b) : b \in ByteSeqs \cup {LongPdf} }
  /\ svc = [c \in CallIds |-> NoCall]
  /\ proc = [c \in CallIds |-> NoProc]
  /\ trace = [c \in CallIds |-> <<>>]
  /\ verify = [NoVerify EXCEPT !.pc = "start"]
  /\ standalone = NoStandalone
  /\ contractModule = NoContractModule

InitStandalone ==
  /\ secretKey = <<>>
  /\ net \in InitialNets
  /\ files = EmptyMap
  /\ svc = [c \in CallIds |-> NoCall]
  /\ proc = [c \in CallIds |-> NoProc]
  /\ trace = [c \in CallIds |-> <<>>]
  /\ verify = NoVerify
  /\ standalone = [NoStandalone EXCEPT !.pc = "start"]
  /\ contractModule = NoContractModule

\* the contract module freshly imported
InitContract ==
  /\ secretKey = <<>>
  /\ net = EmptyMap
  /\ files = EmptyMap
  /\ svc = [c \in CallIds |-> NoCall]
  /\ proc = [c \in CallIds |-> NoProc]
  /\ trace = [c \in CallIds |-> <<>>]
  /\ verify = NoVerify
  /\ standalone = NoStandalone
  /\ \E a \in Addresses \cup {<<>>} :
       contractModule = [NoContractModule EXCEPT !.loaded = TRUE, !.CONTRACT_ADDRESS = a]

Init == InitService \/ InitCli \/ InitVerify \/ InitStandalone \/ InitContract

\* two callers at once, with a good key: both download the same blob, or
\* both upload (the same bytes, or different bytes)
InitConcurrent ==
  /\ secretKey = SuiForm([i \in 1..KeyLen |-> 255])
  /\ files = EmptyMap
  /\ \/ /\ net \in InitialNets \ {EmptyMap}
        /\ svc = [c \in CallIds |->
                   [NoCall EXCEPT !.op = "download", !.pc = "call", !.blobId = StandaloneBlobId]]
     \/ /\ net = EmptyMap
        /\ \E b \in {<<0>>, <<255>>} :
             svc = [c \in CallIds |->
                     [NoCall EXCEPT !.op = "upload", !.pc = "call",
                                    !.fileContents = IF c = 1 THEN <<0>> ELSE b]]
  /\ proc = [c \in CallIds |-> NoProc]
  /\ trace = [c \in CallIds |-> <<>>]
  /\ verify = NoVerify
  /\ standalone = NoStandalone
  /\ contractModule = NoContractModule

Next ==
  \/ \E c \in CallIds :
       \/ ProcStart(c)
       \/ WriteBlobReturns(c)
       \/ WaitElapses(c)
       \/ ReadBlobReturns(c)
       \/ SvcUploadStart(c)
       \/ SvcUploadResume(c)
       \/ SvcDownloadStart(c)
       \/ GetStart(c)
       \/ SvcDownloadResume(c)
       \/ CallerDownloadsResult(c)
  \/ MainStart
  \/ MainWriteBlobReturns
  \/ MainWaitElapses
  \/ MainPropagationElapses
  \/ MainReadBlobReturns
  \/ MainRetrievalWaitElapses
  \/ StandaloneStart
  \/ GetBlobReturns
  \/ StandaloneReadBlobReturns
  \/ StandaloneWaitElapses
  \/ GetContract
  \/ GetContractWithSigner
  \/ NewContractService
  \/ CreateItem
  \/ SendTransaction
  \/ ReadContract

Spec == Init /\ [][Next]_vars

\* every writeBlob call settles and every timed wait elapses
UploadFairness ==
  /\ \A c \in CallIds : WF_vars(WriteBlobReturns(c)) /\ WF_vars(WaitElapses(c))
  /\ WF_vars(MainWriteBlobReturns) /\ WF_vars(MainWaitElapses)

\* the runs that upload: the service call with its child process, the
\* script run from a shell, the upload+verify script up to its upload result
InitUpload ==
  \/ InitService /\ svc[1].op = "upload"
  \/ InitCli /\ proc[1].command = "upload"
  \/ InitVerify

NextUpload ==
  \/ \E c \in CallIds :
       \/ SvcUploadStart(c)
       \/ ProcStart(c)
       \/ WriteBlobReturns(c)
       \/ WaitElapses(c)
       \/ SvcUploadResume(c)
  \/ MainStart
  \/ MainWriteBlobReturns
  \/ MainWaitElapses

SpecFair == InitUpload /\ [][NextUpload]_vars /\ UploadFairness

\* the service functions and their child processes, for every caller
NextConcurrent ==
  \E c \in CallIds :
    \/ SvcUploadStart(c)
    \/ SvcDownloadStart(c)
    \/ ProcStart(c)
    \/ WriteBlobReturns(c)
    \/ WaitElapses(c)
    \/ ReadBlobReturns(c)
    \/ SvcUploadResume(c)
    \/ SvcDownloadResume(c)

SpecConcurrent == InitConcurrent /\ [][NextConcurrent]_vars

----------------------------------------------------------------------------
(* Properties *)

Count(tr, e) == Cardinality({i \in DOMAIN tr : tr[i].ev = e})

\* the event at i is the failure of a writeBlob / readBlob call
IsWriteError(tr, i) ==
  i > 1 /\ tr[i].ev \in {"retryable", "terminal"} /\ tr[i - 1].ev = "writeBlob"

IsReadError(tr, i) ==
  i > 1 /\ tr[i].ev \in {"retryable", "terminal", "notFound"} /\ tr[i - 1].ev = "readBlob"

WriteFailuresUpTo(tr, i) == Cardinality({j \in 1..i : IsWriteError(tr, j)})

ReadFailuresUpTo(tr, i) == Cardinality({j \in 1..i : IsReadError(tr, j)})

\* no network call failed and no local file write failed
Healthy(tr) ==
  \A i \in DOMAIN tr : tr[i].ev \notin {"retryable", "terminal", "noid", "fsError"}

Finished(s) == s.pc \in {"returned", "thrown", "responded"}

\* C1: one upload issues at most 3 writeBlob calls, whatever the network
\* answers; after 3 consecutive retryable failures there is no 4th call.
C1_AtMostThreeWrites ==
  /\ \A c \in CallIds : Count(trace[c], "writeBlob") <= 3
  /\ Count(verify.trace, "writeBlob") <= 3

C1_Witness ==
  \E c \in CallIds :
    /\ proc[c].command = "upload" /\ proc[c].pc = "exited"
    /\ Count(trace[c], "retryable") = 3
    /\ Count(trace[c], "writeBlob") = 3

\* C2: a download of an identifier that starts with 'mock-blob-' fails
\* without a download subprocess and without any readBlob call, in the
\* service function as in the route.
C2_MockNeverDownloaded ==
  \A c \in CallIds :
    (svc[c].op \in {"download", "get"} /\ StartsWith(svc[c].blobId, MockPrefix)) =>
      /\ proc[c].command # "download"
      /\ Count(trace[c], "readBlob") = 0
      /\ svc[c].pc \in {"call", "thrown", "responded"}
      /\ svc[c].pc = "responded" => svc[c].response.status = 404
      /\ svc[c].data = <<>> /\ svc[c].response.body = <<>>

C2_Witness ==
  \E c \in CallIds :
    /\ svc[c].op = "download" /\ svc[c].pc = "thrown"
    /\ StartsWith(svc[c].blobId, MockPrefix)
    /\ svc[c].error = "Cannot download mock blob ID"

\* C3: the service upload never throws; when the upload fails (temp file
\* not written, script exit code not 0, no 'Blob ID:' line) it returns an
\* identifier that starts with 'mock-blob-', the prefix downloads test.
C3_UploadFallsBackToMock ==
  \A c \in CallIds :
    svc[c].op = "upload" =>
      /\ svc[c].pc # "thrown"
      /\ (svc[c].pc = "returned" /\
            (proc[c].pc = "none" \/ proc[c].exitCode # 0
               \/ FindLine(proc[c].stdout, BlobIdPrefix) = <<>>))
           => /\ StartsWith(svc[c].ret, MockPrefix)
              /\ Len(svc[c].ret) > Len(MockPrefix)

C3_Witness ==
  \E c \in CallIds :
    /\ svc[c].op = "upload" /\ svc[c].pc = "returned"
    /\ proc[c].exitCode = 1 /\ proc[c].attempts = 3
    /\ StartsWith(svc[c].ret, MockPrefix)

\* C4: with a valid key, no failing network call and no failing file write,
\* downloading what upload(B) returned yields exactly B, through the service
\* function and through the route.
C4_RoundTrip ==
  \A c \in CallIds :
    (/\ svc[c].op \in {"download", "get"}
     /\ svc[c].ret # <<>> /\ svc[c].blobId = svc[c].ret
     /\ Finished(svc[c])
     /\ proc[c].keypair # <<>> /\ Healthy(trace[c])) =>
       /\ svc[c].data = svc[c].fileContents
       /\ svc[c].op = "download" => svc[c].pc = "returned"
       /\ svc[c].op = "get" =>
            svc[c].response.status = 200 /\ svc[c].response.body = svc[c].fileContents

C4_Witness ==
  \E c \in CallIds :
    /\ svc[c].op = "download" /\ svc[c].pc = "returned"
    /\ svc[c].blobId = svc[c].ret /\ svc[c].ret \in NetBlobIds
    /\ Len(svc[c].fileContents) = MaxLen
    /\ svc[c].data = svc[c].fileContents
    /\ Healthy(trace[c])

----------------------------------------------------------------------------
(* Retry policy *)

\* the waits of the upload loop: a wait right after a failed writeBlob
\* (and after the reset, when there is one)
IsUploadBackoff(tr, i) ==
  /\ i > 1 /\ tr[i].ev = "wait"
  /\ \/ IsWriteError(tr, i - 1)
     \/ tr[i - 1].ev = "reset" /\ IsWriteError(tr, i - 2)

UploadBackoffs(tr) == {i \in DOMAIN tr : IsUploadBackoff(tr, i)}

\* C5 as the specification states it: a writeBlob failure that is not
\* retryable ends the loop, no later writeBlob and no backoff wait.
TerminalErrorAborts(tr) ==
  \A i \in DOMAIN tr :
    (IsWriteError(tr, i) /\ tr[i].ev = "terminal") =>
      /\ \A j \in DOMAIN tr : j > i => tr[j].ev # "writeBlob"
      /\ i < Len(tr) => tr[i + 1].ev # "wait"

TerminalErrorRetried(tr, waiting) ==
  \A i \in DOMAIN tr :
    (IsWriteError(tr, i) /\ tr[i].ev = "terminal" /\ WriteFailuresUpTo(tr, i) < 3) =>
      /\ Len(tr) > i
      /\ tr[i + 1] = WaitEv(WriteFailuresUpTo(tr, i) * 3000)
      /\ IF Len(tr) = i + 1 THEN waiting ELSE tr[i + 2].ev = "writeBlob"

LinearBackoff(tr) ==
  /\ \A i \in UploadBackoffs(tr) : tr[i].ms = 3000 * WriteFailuresUpTo(tr, i)
  /\ \A i \in DOMAIN tr :
       IsWriteError(tr, i) =>
         LET k == WriteFailuresUpTo(tr, i)
             n == IF i < Len(tr) /\ tr[i + 1].ev = "reset" THEN i + 2 ELSE i + 1
         IN IF k < 3 THEN n <= Len(tr) /\ tr[n] = WaitEv(k * 3000)
            ELSE \A j \in DOMAIN tr : j > i => ~IsUploadBackoff(tr, j)
  /\ \A j \in DOMAIN tr :
       tr[j].ev = "writeBlob" =>
         /\ j > 1 => IsUploadBackoff(tr, j - 1)
         /\ j < Len(tr) => tr[j + 1].ev \in {"ok", "noid", "retryable", "terminal"}

\* C6: upload attempts come one after the other, the k-th failure (k = 1, 2)
\* is followed by a wait of exactly k * 3000 ms before attempt k + 1, the
\* 3rd failure by no wait; two failures then a success: two waits, 3000 and
\* 6000 ms, and the upload succeeds on attempt 3.
C6_LinearBackoff ==
  /\ \A c \in CallIds :
       /\ LinearBackoff(trace[c])
       /\ (proc[c].command = "upload" /\ proc[c].pc = "exited" /\
             Count(trace[c], "writeBlob") = 3 /\ Count(trace[c], "ok") = 1) =>
            /\ proc[c].exitCode = 0 /\ proc[c].attempts = 2
            /\ {trace[c][i].ms : i \in UploadBackoffs(trace[c])} = {3000, 6000}
            /\ Cardinality(UploadBackoffs(trace[c])) = 2
  /\ LinearBackoff(verify.trace)

C6_Witness ==
  \E c \in CallIds :
    /\ proc[c].command = "upload" /\ proc[c].exitCode = 0 /\ proc[c].attempts = 2
    /\ Count(trace[c], "writeBlob") = 3
    /\ \E i, j \in UploadBackoffs(trace[c]) :
         i < j /\ trace[c][i].ms = 3000 /\ trace[c][j].ms = 6000

\* the errors of a retry loop: reset exactly after the retryable ones, and
\* directly after the error, hence before the wait and the next attempt
ResetIffRetryable(tr, inLoop(_)) ==
  /\ \A i \in DOMAIN tr :
       (inLoop(i) /\ tr[i].ev \in {"retryable", "terminal", "fsError"}) =>
          (tr[i].ev = "retryable" <=> (i < Len(tr) /\ tr[i + 1].ev = "reset"))
  /\ \A i \in DOMAIN tr :
       tr[i].ev = "reset" => (i > 1 /\ tr[i - 1].ev = "retryable" /\ inLoop(i - 1))

\* C7: in the upload loop (CLI script, upload+verify script) and in the
\* retrieval loops (upload+verify script, standalone script) reset() is
\* called after a failed attempt iff the error is retryable, and before
\* the backoff wait and the next attempt.
C7_ResetIffRetryable ==
  /\ \A c \in CallIds :
       LET InUploadLoop(i) == IsWriteError(trace[c], i) IN
       ResetIffRetryable(trace[c], InUploadLoop)
  /\ LET Always(i) == TRUE IN
       /\ ResetIffRetryable(verify.trace, Always)
       /\ ResetIffRetryable(standalone.trace, Always)

C7_Witness ==
  /\ \E i \in DOMAIN verify.trace :
       /\ IsWriteError(verify.trace, i) /\ verify.trace[i].ev = "retryable"
       /\ Len(verify.trace) >= i + 2
       /\ verify.trace[i + 1].ev = "reset" /\ verify.trace[i + 2] = WaitEv(3000)
  /\ \E i \in DOMAIN verify.trace :
       /\ IsReadError(verify.trace, i) /\ verify.trace[i].ev = "retryable"
       /\ Len(verify.trace) >= i + 3
       /\ verify.trace[i + 1].ev = "reset" /\ verify.trace[i + 2].ev = "wait"
       /\ verify.trace[i + 3].ev = "readBlob"
  /\ \E i \in DOMAIN verify.trace :
       /\ verify.trace[i].ev = "terminal" /\ Len(verify.trace) > i
       /\ verify.trace[i + 1].ev = "wait"

----------------------------------------------------------------------------
(* Download *)

\* C8: a download of a non-mock id attempts readBlob up to 3 times with the
\* upload's policy: a retryable read failure that is the k-th failure,
\* k < 3, is followed by the client reset and the wait of k * 3000 ms (and
\* then by the next readBlob), so that two retryable failures and a success
\* end in a successful download.
C8_DownloadRetriesRead ==
  \A c \in CallIds :
    (svc[c].op \in {"download", "get"} /\ ~StartsWith(svc[c].blobId, MockPrefix)) =>
      \A i \in DOMAIN trace[c] :
        (/\ IsReadError(trace[c], i) /\ trace[c][i].ev = "retryable"
         /\ ReadFailuresUpTo(trace[c], i) < 3) =>
           /\ Len(trace[c]) >= i + 2
           /\ trace[c][i + 1].ev = "reset"
           /\ trace[c][i + 2] = WaitEv(ReadFailuresUpTo(trace[c], i) * 3000)

\* every readBlob of the run has failed
AllReadsFailed(tr) ==
  /\ Count(tr, "readBlob") > 0
  /\ \A i \in DOMAIN tr :
       tr[i].ev = "readBlob" =>
         (i < Len(tr) /\ tr[i + 1].ev \in {"retryable", "terminal", "notFound"})

\* C9: when every retrieval attempt of a download has failed, the download
\* ends in an error thrown to its caller that carries the blob id; it does
\* not return normally and hands out no placeholder -- in the service
\* function, in the upload+verify script and in the standalone script.
C9_ExhaustionIsHardError ==
  /\ \A c \in CallIds :
       (svc[c].op = "download" /\ Finished(svc[c]) /\ proc[c].command = "download"
          /\ AllReadsFailed(trace[c])) =>
            /\ svc[c].pc = "thrown"
            /\ svc[c].errorBlobId = svc[c].blobId
            /\ svc[c].data = <<>>
  /\ (verify.pc = "returned" /\ AllReadsFailed(verify.trace)) => FALSE
  /\ (standalone.pc = "returned" /\ AllReadsFailed(standalone.trace)) => FALSE

\* C10: the route answers 400 for an absent id, 404 for a mock id, 500 when
\* the download fails, and otherwise 200 with the blob's bytes as body,
\* Content-Type application/octet-stream and
\* Content-Disposition attachment; filename="file-<blobId>".
C10_RouteOutcome ==
  \A c \in CallIds :
    (svc[c].op = "get" /\ svc[c].pc = "responded") =>
      LET r == svc[c].response
          id == svc[c].blobId
          mock == StartsWith(id, MockPrefix)
      IN /\ r.status \in {200, 400, 404, 500}
         /\ r.status = 400 <=> id = <<>>
         /\ r.status = 404 <=> (id # <<>> /\ mock)
         /\ r.status = 500 <=> (id # <<>> /\ ~mock /\ proc[c].exitCode # 0)
         /\ r.status = 200 =>
              /\ proc[c].command = "download" /\ proc[c].exitCode = 0
              /\ id \in DOMAIN net /\ r.body = net[id]
              /\ r.contentType = "application/octet-stream"
              /\ r.contentDisposition =
                   <<"a","t","t","a","c","h","m","e","n","t",";"," ","f","i","l","e","n","a","m","e","=","\"">>
                   \o <<"f","i","l","e","-">> \o id \o <<"\"">>
              /\ r.error = ""
         /\ r.status # 200 => (r.body = <<>> /\ r.error # "" /\ r.contentType = "")

C10_Witness ==
  \E c \in CallIds :
    /\ svc[c].op = "get" /\ svc[c].pc = "responded"
    /\ svc[c].response.status = 200
    /\ Len(svc[c].response.body) = MaxLen

----------------------------------------------------------------------------
(* Command line *)

\* the subcommand the process was asked for has done its work: writeBlob
\* gave a blob id, or readBlob gave the bytes and they were saved
CliSucceeded(c) ==
  LET p == proc[c]
      n == Len(trace[c])
  IN \/ /\ p.command = "upload" /\ p.arg # <<>>
        /\ p.result.defined /\ p.result.blobId # <<>>
     \/ /\ p.command = "download" /\ p.arg # <<>>
        /\ n >= 2 /\ trace[c][n - 1].ev = "readBlob" /\ trace[c][n].ev = "ok"

\* C11: the script exits 0 iff the requested subcommand succeeded, and then
\* its output has the line 'Blob ID: <id>' (upload) or 'File saved to:
\* <path>' (download); when the operation fails, or the subcommand or its
\* argument is missing or unknown, it exits 1 and prints no such line.
C11_ExitCodeAndResultLine ==
  \A c \in CallIds :
    proc[c].pc = "exited" =>
      LET p == proc[c]
          blobIdLine == FindLine(p.stdout, BlobIdPrefix)
          filePathLine == FindLine(p.stdout, FileSavedPrefix)
      IN /\ p.exitCode \in {0, 1}
         /\ p.exitCode = 0 <=> CliSucceeded(c)
         /\ (p.exitCode = 0 /\ p.command = "upload") =>
              /\ blobIdLine = << BlobIdPrefix \o <<" ">> \o p.result.blobId >>
              /\ filePathLine = <<>>
         /\ (p.exitCode = 0 /\ p.command = "download") =>
              /\ filePathLine = << FileSavedPrefix \o <<" ">> \o OutputPath(p.arg) >>
              /\ blobIdLine = <<>>
              /\ OutputPath(p.arg) \in DOMAIN files \/ svc[c].op # "cli"
         /\ p.exitCode = 1 => (blobIdLine = <<>> /\ filePathLine = <<>>)
         /\ (p.command \notin {"upload", "download"} \/ p.arg = <<>>) => p.exitCode = 1

C11_Witness ==
  \E c \in CallIds :
    /\ svc[c].op = "cli" /\ proc[c].pc = "exited"
    /\ proc[c].command = "download" /\ proc[c].exitCode = 0
    /\ FindLine(proc[c].stdout, FileSavedPrefix) # <<>>
    /\ files[OutputPath(proc[c].arg)] = net[proc[c].arg]

----------------------------------------------------------------------------
(* Signing key *)

\* the texts of every key of Keys, by form
KeyForms ==
  [k \in Keys |-> [sui |-> SuiForm(k), hex |-> HexForm(k), base64 |-> Base64Form(k)]]

\* the process is past its key handling (lines 16-76)
KeyHandled(p) == p.pc \notin {"none", "start"}

\* the decodings run in the order Sui form, hex, base64
InFallbackOrder(tried) ==
  tried \in { <<"sui">>, <<"sui", "hex">>, <<"sui", "base64">>, <<"sui", "hex", "base64">> }

\* C12: for every 32-byte key K of Keys, the startup turns each of the
\* three texts of K (Sui form, 0x hex, base64) into a keypair over exactly
\* the bytes K, and the decodings are tried in the order Sui, hex, base64.
C12_EveryFormDecodesToKey ==
  \A c \in CallIds :
    KeyHandled(proc[c]) =>
      \A k \in Keys :
        secretKey \in {KeyForms[k].sui, KeyForms[k].hex, KeyForms[k].base64} =>
          /\ proc[c].keypair = k
          /\ InFallbackOrder(proc[c].tried)

\* values of the variable that no decoding turns into 32 bytes
UndecodableTexts ==
  { s \in EnvKeys :
      /\ s # <<>>
      /\ Len(DecodeSuiPrivateKey(s).secretKey) # KeyLen
      /\ Len(BufferFromHex(SubSeq(s, 3, Len(s)))) # KeyLen
      /\ Len(BufferFromBase64(s)) # KeyLen }

StartingUpload == <<"*"," ","S","t","a","r","t","i","n","g"," ","W","a","l","r","u","s"," ","u","p","l","o","a","d">>
StartingDownload == <<"*"," ","S","t","a","r","t","i","n","g"," ","W","a","l","r","u","s"," ","d","o","w","n","l","o","a","d">>

\* C13: when SUI_SECRET_KEY is not set, or decodes in every format to a
\* length other than 32 bytes (31, 33, ...), the process exits 1 at startup:
\* no keypair exists and no upload or download has been dispatched (no
\* file read, no network call, no output of either command).
C13_BadKeyIsFatalAtStartup ==
  \A c \in CallIds :
    (KeyHandled(proc[c]) /\ (secretKey = <<>> \/ secretKey \in UndecodableTexts)) =>
      /\ proc[c].pc = "exited" /\ proc[c].exitCode = 1
      /\ proc[c].keypair = <<>>
      /\ proc[c].attempts = 0 /\ ~proc[c].result.defined /\ proc[c].fileContents = <<>>
      /\ Count(trace[c], "writeBlob") = 0 /\ Count(trace[c], "readBlob") = 0
      /\ FindLine(proc[c].stdout, StartingUpload) = <<>>
      /\ FindLine(proc[c].stdout, StartingDownload) = <<>>
      /\ FindLine(proc[c].stdout, BlobIdPrefix) = <<>>
      /\ FindLine(proc[c].stdout, FileSavedPrefix) = <<>>

\* Sui-format texts of keys one byte too long
TooLongSuiTexts == {SuiForm(k) : k \in {w \in WrongLengthKeys : Len(w) = KeyLen + 1}}

C13_Witness ==
  \E c \in CallIds :
    /\ secretKey \in TooLongSuiTexts
    /\ proc[c].command = "upload" /\ proc[c].arg = LocalFile
    /\ proc[c].pc = "exited" /\ proc[c].exitCode = 1
    /\ proc[c].tried = <<"sui", "base64">>

\* the keys whose base64 text does not begin with 0x are decoded to
\* themselves from all three forms
DecodersAgreeOffPrefix ==
  \A c \in CallIds :
    KeyHandled(proc[c]) =>
      \A k \in Keys :
        (secretKey \in {KeyForms[k].sui, KeyForms[k].hex, KeyForms[k].base64}
           /\ ~(secretKey = KeyForms[k].base64 /\ StartsWith(secretKey, HexPrefix))) =>
          proc[c].keypair = k

----------------------------------------------------------------------------
(* Concurrent callers *)

\* what a service call gives when it runs alone and nothing of its own
\* fails: the download returns the blob's bytes, the upload the blob id
\* that writeBlob gave its child process
AsIfAlone(c) ==
  (Finished(svc[c]) /\ Healthy(trace[c]) /\ proc[c].pc = "exited" /\ proc[c].exitCode = 0) =>
     /\ svc[c].op = "download" =>
          /\ svc[c].pc = "returned"
          /\ svc[c].data = net[svc[c].blobId]
     /\ svc[c].op = "upload" =>
          /\ svc[c].pc = "returned"
          /\ svc[c].ret = proc[c].result.blobId
          /\ net[svc[c].ret] = svc[c].fileContents

\* C14: with two service calls in flight (two downloads of one blob id, or
\* two uploads), in every interleaving each call ends as it would alone:
\* neither fails nor returns other bytes because of the other call's files.
C14_ConcurrentCallsIndependent == \A c \in CallIds : AsIfAlone(c)

----------------------------------------------------------------------------
(* Upload results *)

\* the first writeBlob of the run was accepted
FirstWriteAccepted(tr) ==
  Len(tr) >= 2 /\ tr[1].ev = "writeBlob" /\ tr[2].ev = "ok"

\* C15: when the network accepts the first writeBlob, the upload makes that
\* one network call and nothing else (no wait, no reset, no second call), the
\* script exits 0 with the id the network assigned, and the service upload
\* returns that id, which is not a mock id.
C15_FirstAttemptSuccess ==
  \A c \in CallIds :
    (proc[c].command = "upload" /\ FirstWriteAccepted(trace[c])) =>
      /\ trace[c] = << Ev("writeBlob"), Ev("ok") >>
      /\ proc[c].pc = "exited" /\ proc[c].exitCode = 0 /\ proc[c].attempts = 0
      /\ proc[c].result.blobId \in NetBlobIds
      /\ net[proc[c].result.blobId] = proc[c].fileContents
      /\ (svc[c].op = "upload" /\ svc[c].pc = "returned") =>
           /\ svc[c].ret = proc[c].result.blobId
           /\ ~StartsWith(svc[c].ret, MockPrefix)
           /\ net[svc[c].ret] = svc[c].fileContents

C15_Witness ==
  \E c \in CallIds :
    /\ svc[c].op = "upload" /\ svc[c].pc = "returned"
    /\ Len(svc[c].fileContents) = MaxLen
    /\ trace[c] = << Ev("writeBlob"), Ev("ok") >>
    /\ svc[c].ret \in NetBlobIds

----------------------------------------------------------------------------
(* Retrieval backoff *)

\* the waits that follow a failed readBlob (after the reset, when there is
\* one), and the number of the failure each of them follows
IsRetrievalBackoff(tr, i) ==
  /\ i > 1 /\ tr[i].ev = "wait"
  /\ tr[i - 1].ev \in {"retryable", "terminal", "fsError", "reset"}
  /\ \E j \in 1..(i - 1) : tr[j].ev = "readBlob"

\* failed retrieval attempts since the last start of a retrieval loop
\* (getBlob opens each approach of the standalone script)
RetrievalFailuresBefore(tr, i) ==
  LET start == IF \E j \in 1..i : tr[j].ev = "getBlob"
               THEN CHOOSE j \in 1..i : tr[j].ev = "getBlob" /\
                      \A l \in 1..i : tr[l].ev = "getBlob" => l <= j
               ELSE 0
  IN Cardinality({j \in (start + 1)..i :
                    tr[j].ev \in {"retryable", "terminal", "fsError"} /\
                    \E l \in 1..j : tr[l].ev = "readBlob"})

RetrievalBackoffIs(tr, factor) ==
  \A i \in DOMAIN tr :
    IsRetrievalBackoff(tr, i) => tr[i].ms = RetrievalFailuresBefore(tr, i) * factor

\* every failed attempt but the last of a loop is followed by such a wait
RetrievalBackoffTaken(tr, max) ==
  \A i \in DOMAIN tr :
    (tr[i].ev \in {"retryable", "terminal", "fsError"} /\ (\E l \in 1..i : tr[l].ev = "readBlob")
       /\ RetrievalFailuresBefore(tr, i) < max) =>
      LET n == IF tr[i].ev = "retryable" THEN i + 2 ELSE i + 1
      IN n <= Len(tr) /\ tr[n].ev = "wait"

\* C16 as the specification states it: after the k-th failed retrieval
\* attempt the wait is k * 5000 ms in the standalone retrieval script and
\* k * 3000 ms in the upload+verify script.
C16_BackoffFactorsAsStated ==
  /\ RetrievalBackoffIs(standalone.trace, 5000)
  /\ RetrievalBackoffIs(verify.trace, 3000)

\* C16 (amended): after the k-th failed retrieval attempt the wait is
\* k * 3000 ms in the standalone retrieval script (k = 1 only: 2 attempts
\* per approach) and k * 5000 ms in the upload+verify script (k = 1, 2).
C16_BackoffFactorsOfTheCode ==
  /\ RetrievalBackoffIs(standalone.trace, 3000)
  /\ RetrievalBackoffTaken(standalone.trace, maxRetrievalAttemptsStandalone)
  /\ RetrievalBackoffIs(verify.trace, 5000)
  /\ RetrievalBackoffTaken(verify.trace, maxRetrievalAttempts)

C16_Witness ==
  /\ \E i, j \in DOMAIN verify.trace :
       /\ i < j /\ IsRetrievalBackoff(verify.trace, i) /\ IsRetrievalBackoff(verify.trace, j)
       /\ verify.trace[i].ms = 5000 /\ verify.trace[j].ms = 10000
  /\ verify.pc = "returned"

C16_WitnessStandalone ==
  /\ \E i \in DOMAIN standalone.trace :
       IsRetrievalBackoff(standalone.trace, i) /\ standalone.trace[i].ms = 3000
  /\ standalone.pc = "returned" /\ standalone.approach = 2

----------------------------------------------------------------------------
(* Verification *)

\* the readBlob at i - 1 returned and its bytes were saved
ReadAndSaved(tr, i) ==
  /\ i > 1 /\ tr[i].ev = "ok" /\ tr[i - 1].ev = "readBlob"
  /\ ~(i < Len(tr) /\ tr[i + 1].ev = "fsError")

\* C17: in the upload+verify script an integrity mismatch (size, first
\* bytes, additive checksum) is only logged: the first read that returns
\* and is saved ends the retrieval loop and the script, whatever the checks
\* say -- no catch block runs for it (no attempt is counted, no reset, no
\* wait) and no further readBlob follows.
C17_MismatchIsOnlyAWarning ==
  LET tr == verify.trace
  IN /\ \A i \in DOMAIN tr :
          ReadAndSaved(tr, i) =>
            /\ i = Len(tr)
            /\ verify.pc = "returned" /\ verify.retrieved
            /\ verify.integrity = IntegrityCheck(verify.pdfContents, verify.retrievedContents)
            /\ verify.retrievalAttempts =
                 Cardinality({j \in 1..i : tr[j].ev \in {"retryable", "terminal", "fsError"}
                                            /\ \E l \in 1..j : tr[l].ev = "readBlob"})
     /\ IntegrityMismatch(verify.integrity) =>
          /\ verify.pc = "returned" /\ verify.retrieved
          /\ tr[Len(tr)].ev = "ok"
          /\ verify.retrievedContents # verify.pdfContents

C17_Witness ==
  /\ verify.pc = "returned" /\ verify.retrieved
  /\ verify.integrity.size = "pass" /\ verify.integrity.firstBytes = "pass"
  /\ verify.integrity.checksum = "fail"
  /\ Count(verify.trace, "readBlob") = 1

----------------------------------------------------------------------------
(* Contract handle *)

SignerlessObjects(m) == {n \in DOMAIN m.objects : m.objects[n].runner = "provider"}

GetContractCalls(m) == {i \in DOMAIN m.calls : m.calls[i].fn = "getContract"}

\* C18: the signer-less handle is built lazily and once: at most one
\* signer-less Contract object ever exists, it is built by the first
\* getContract() call, every getContract() call returns that object;
\* getContractWithSigner returns a fresh object bound to its signer and
\* leaves the cached handle as it found it.
C18_SingletonHandle ==
  LET m == contractModule
  IN /\ Cardinality(SignerlessObjects(m)) <= 1
     /\ (GetContractCalls(m) = {}) <=> (m.contract = 0)
     /\ SignerlessObjects(m) = {} <=> GetContractCalls(m) = {}
     /\ \A i \in GetContractCalls(m) :
          /\ m.calls[i].returned = m.contract
          /\ m.calls[i].returned \in SignerlessObjects(m)
          /\ m.calls[i].cachedBefore = 0 <=> (\A j \in GetContractCalls(m) : i <= j)
     /\ \A i \in DOMAIN m.calls :
          m.calls[i].fn = "getContractWithSigner" =>
            /\ m.calls[i].cachedAfter = m.calls[i].cachedBefore
            /\ m.calls[i].returned # m.calls[i].cachedAfter
            /\ m.objects[m.calls[i].returned].runner = m.calls[i].signer
            /\ \A j \in DOMAIN m.calls : j # i => m.calls[j].returned # m.calls[i].returned

C18_Witness ==
  LET m == contractModule
  IN \E i, j, k \in DOMAIN m.calls :
       /\ i < j /\ j < k
       /\ m.calls[i].fn = "getContract" /\ m.calls[j].fn = "getContractWithSigner"
       /\ m.calls[k].fn = "getContract"
       /\ m.calls[k].returned = m.calls[i].returned
       /\ Len(m.objects) = 2

----------------------------------------------------------------------------
(* Standard output protocol *)

\* the lines of the output that open with p
LinesWithPrefix(stdout, p) == {i \in DOMAIN stdout : StartsWith(stdout[i], p)}

\* C19: when the script's uploadToWalrus has returned blob id x and the
\* script has exited 0, the service upload returns exactly x: the output has
\* one line that starts with 'Blob ID:', the one the CLI prints last, and
\* its text after the prefix, trimmed, is x; the log lines that mention
\* 'Blob ID:' elsewhere are not taken for it.
C19_StdoutProtocolAgrees ==
  \A c \in CallIds :
    (/\ svc[c].op = "upload" /\ svc[c].pc = "returned"
     /\ proc[c].command = "upload" /\ proc[c].pc = "exited" /\ proc[c].exitCode = 0) =>
       LET out == proc[c].stdout
           x == proc[c].result.blobId
       IN /\ svc[c].ret = x
          /\ x # <<>>
          /\ LinesWithPrefix(out, BlobIdPrefix) = {Len(out)}
          /\ out[Len(out)] = BlobIdPrefix \o <<" ">> \o x
          /\ \E i \in DOMAIN out :
               Includes(out[i], BlobIdPrefix) /\ ~StartsWith(out[i], BlobIdPrefix)

C19_Witness ==
  \E c \in CallIds :
    /\ svc[c].op = "upload" /\ svc[c].pc = "returned"
    /\ proc[c].command = "upload" /\ proc[c].exitCode = 0 /\ proc[c].attempts = 1
    /\ svc[c].ret = proc[c].result.blobId
    /\ Cardinality({i \in DOMAIN proc[c].stdout : Includes(proc[c].stdout[i], BlobIdPrefix)}) = 2

----------------------------------------------------------------------------
(* Script upload *)

\* the writeBlob attempts of the run that returned (with or without id)
CompletedWrites(tr) == {i \in DOMAIN tr : tr[i].ev \in {"ok", "noid"}}

\* C20: the script's uploadToWalrus ends with the first writeBlob that
\* returns: no writeBlob is issued after it, and its blob id is the result;
\* 'Upload failed after all retries' is thrown exactly when no attempt gave
\* a result with a blob id -- 3 attempts threw, or one returned without id.
C20_ScriptUploadResult ==
  \A c \in CallIds :
    (proc[c].command = "upload" /\ proc[c].pc = "exited" /\ proc[c].keypair # <<>>
       /\ proc[c].arg # <<>> /\ proc[c].error # "ENOENT") =>
      LET tr == trace[c]
          p == proc[c]
      IN /\ \A i \in CompletedWrites(tr) : i = Len(tr)
         /\ p.exitCode = 0 <=> (tr[Len(tr)].ev = "ok")
         /\ p.exitCode = 0 =>
              /\ p.error = ""
              /\ p.result.blobId \in NetBlobIds
              /\ net[p.result.blobId] = p.fileContents
              /\ p.attempts = WriteFailuresUpTo(tr, Len(tr))
         /\ p.error = "Upload failed after all retries" <=> Count(tr, "ok") = 0
         /\ Count(tr, "ok") = 0 <=>
              \/ /\ WriteFailuresUpTo(tr, Len(tr)) = 3 /\ CompletedWrites(tr) = {}
                 /\ Count(tr, "writeBlob") = 3
              \/ tr[Len(tr)].ev = "noid"

C20_Witness ==
  \E c \in CallIds :
    /\ proc[c].command = "upload" /\ proc[c].pc = "exited"
    /\ proc[c].error = "Upload failed after all retries"
    /\ Count(trace[c], "writeBlob") = 2 /\ trace[c][Len(trace[c])].ev = "noid"

C20_WitnessThirdAttempt ==
  \E c \in CallIds :
    /\ proc[c].command = "upload" /\ proc[c].exitCode = 0
    /\ Count(trace[c], "writeBlob") = 3 /\ proc[c].attempts = 2

----------------------------------------------------------------------------
(* Termination of the upload loop *)

InUploadLoop(pc) == pc \in {"writing", "waiting"}

WithinUploadBudget(tr) == Count(tr, "writeBlob") <= 3 /\ Count(tr, "wait") <= 2

\* C21: when every writeBlob call settles and every timed wait elapses, an
\* upload that has entered its retry loop leaves it (result or exhaustion)
\* having made at most 3 attempts and at most 2 waits, whatever the errors.
C21_UploadTerminates ==
  /\ \A c \in CallIds :
       (proc[c].command = "upload" /\ InUploadLoop(proc[c].pc))
         ~> (proc[c].pc = "exited" /\ WithinUploadBudget(trace[c]))
  /\ InUploadLoop(verify.pc)
       ~> (~InUploadLoop(verify.pc)
             /\ Count(verify.trace, "writeBlob") <= 3
             /\ Cardinality(UploadBackoffs(verify.trace)) <= 2)

C21_Witness ==
  \E c \in CallIds :
    /\ proc[c].command = "upload" /\ proc[c].pc = "exited"
    /\ Count(trace[c], "writeBlob") = 3 /\ Count(trace[c], "wait") = 2
    /\ Count(trace[c], "retryable") = 1 /\ Count(trace[c], "terminal") = 2

----------------------------------------------------------------------------
(* Temp file of the service upload *)

\* the upload call of caller c has returned and had created its temp file
UploadReturnedWithTemp(c) ==
  svc[c].op = "upload" /\ svc[c].pc = "returned" /\ svc[c].tempFile # <<>>

\* C22: on every return path of the service's uploadToWalrus (blob id
\* returned, or mock identifier returned after a failed child process or a
\* failed parse of its output) the temp file the call created is gone.
C22_TempFileDeleted ==
  \A c \in CallIds :
    UploadReturnedWithTemp(c) => svc[c].tempFile \notin DOMAIN files

\* the paths on which the child process exited 0 do delete the file
TempFileDeletedAfterCleanExit ==
  \A c \in CallIds :
    (UploadReturnedWithTemp(c) /\ proc[c].exitCode = 0) =>
      svc[c].tempFile \notin DOMAIN files

\* the paths on which the child process failed leave it behind
TempFileLeftAfterFailedChild ==
  \A c \in CallIds :
    (UploadReturnedWithTemp(c) /\ proc[c].exitCode # 0) =>
      /\ svc[c].tempFile \in DOMAIN files
      /\ files[svc[c].tempFile] = svc[c].fileContents
      /\ IsMockBlobId(svc[c].ret)

----------------------------------------------------------------------------
(* ContractService without a signer *)

SignerRequiredWords == <<"S","i","g","n","e","r"," ","r","e","q","u","i","r","e","d">>

\* the service the last method call was made on
OpServiceOf(m) == m.services[m.opService]

TransactionsSent(log) == {i \in DOMAIN log : log[i].kind = "send"}

\* C23: on a ContractService built without a signer every state-changing
\* method (createItem, purchaseItem, rentItem, updateItemPrices,
\* deactivateItem) throws a 'Signer required ...' error before any call on
\* the contract, the provider or the signer; no method of such a service
\* ever sends a transaction.
C23_SignerlessRejects ==
  LET m == contractModule
      op == m.op
  IN (op.pc # "idle" /\ OpServiceOf(m).signer = "") =>
       /\ op.signer = ""
       /\ m.objects[OpServiceOf(m).contract].runner = "provider"
       /\ TransactionsSent(op.log) = {}
       /\ op.method \in StateChangingMethods =>
            /\ op.pc = "thrown"
            /\ StartsWith(op.error, SignerRequiredWords)
            /\ op.error = SignerRequired \o SignerRequiredFor(op.method)
            /\ op.log = <<>>

C23_Witness ==
  LET m == contractModule
  IN /\ m.op.method = "rentItem" /\ m.op.pc = "thrown"
     /\ OpServiceOf(m).signer = ""
     /\ \E s \in DOMAIN m.services : m.services[s].signer # ""

----------------------------------------------------------------------------
(* createItem *)

\* positions in the log of the calls named fn that ended as ok says
LogCalls(log, fn, ok) == {i \in DOMAIN log : log[i].fn = fn /\ log[i].ok = ok}

CreateItemSent(log) == {i \in DOMAIN log : log[i].kind = "send" /\ log[i].fn = "createItem"}

\* C24: createItem sends its transaction only after the gas estimation and
\* then the static call have both succeeded; when either fails an error is
\* thrown and nothing is sent; a failed balance lookup or code check (empty
\* code '0x' included) does not stop the transaction; the gas limit sent is
\* floor(estimate * 120 / 100).
C24_CreateItemOrder ==
  LET op == contractModule.op
      log == op.log
      estimated == LogCalls(log, "createItem.estimateGas", TRUE)
      validated == LogCalls(log, "createItem.staticCall", TRUE)
  IN (op.method = "createItem" /\ OpDone(op)) =>
       /\ \A i \in CreateItemSent(log) :
            /\ \E j \in estimated, k \in validated : j < k /\ k < i
            /\ log[i].gasLimit * 100 <= op.gasEstimate * 120
            /\ op.gasEstimate * 120 < (log[i].gasLimit + 1) * 100
       /\ Cardinality(CreateItemSent(log)) <= 1
       /\ (LogCalls(log, "createItem.estimateGas", FALSE) # {}
             \/ LogCalls(log, "createItem.staticCall", FALSE) # {}) =>
            (op.pc = "thrown" /\ op.error # <<>> /\ CreateItemSent(log) = {})
       /\ LogCalls(log, "createItem.staticCall", FALSE) # {} =>
            StartsWith(op.error, ValidationFailed)
       /\ (estimated # {} /\ validated # {}) => CreateItemSent(log) # {}

\* the transaction goes out although the balance lookup failed and the
\* code check found no code
C24_Witness ==
  LET op == contractModule.op
  IN /\ op.method = "createItem" /\ op.pc = "returned"
     /\ \E i \in DOMAIN op.log : op.log[i].fn = "getBalance" /\ ~op.log[i].ok
     /\ \E i \in DOMAIN op.log : op.log[i].kind = "result" /\ op.log[i].fn = "0x"
     /\ \E i \in CreateItemSent(op.log) : op.log[i].gasLimit = 25201
     /\ op.gasEstimate = 21001

C24_WitnessCodeLookupFails ==
  LET op == contractModule.op
  IN /\ op.method = "createItem" /\ CreateItemSent(op.log) # {}
     /\ LogCalls(op.log, "getCode", FALSE) # {}

----------------------------------------------------------------------------
(* Read methods *)

ReadsWithFallback ==
  {"getActiveItems", "getUserItems", "getUserRentals", "hasActiveRental",
   "getTotalItems", "getTotalRentals"}

ReadsThatPropagate == {"getItem", "getRental", "getItemRenters", "getOwnershipHistory"}

\* [] / false / 0, by the method's return type
IsNeutralDefault(method, v) ==
  CASE method \in {"getActiveItems", "getUserItems", "getUserRentals"} ->
         v.type = "array" /\ v.list = <<>>
    [] method = "hasActiveRental" -> v.type = "boolean" /\ v.bool = FALSE
    [] method \in {"getTotalItems", "getTotalRentals"} -> v.type = "number" /\ v.num = 0
    [] OTHER -> FALSE

\* C25: getActiveItems, getUserItems, getUserRentals, hasActiveRental,
\* getTotalItems and getTotalRentals never throw: when their contract call
\* fails they return [] / false / 0; getItem, getRental, getItemRenters and
\* getOwnershipHistory throw the error of the failed contract call.
C25_ReadFallbacks ==
  LET op == contractModule.op
      failed == LogCalls(op.log, op.method, FALSE) # {}
  IN (op.method \in ReadMethods /\ OpDone(op)) =>
       /\ op.method \in ReadsWithFallback \cup ReadsThatPropagate
       /\ Len(op.log) = 1 /\ op.log[1].kind = "call"
       /\ op.method \in ReadsWithFallback =>
            /\ op.pc = "returned" /\ op.error = <<>>
            /\ failed => IsNeutralDefault(op.method, op.ret)
       /\ op.method \in ReadsThatPropagate =>
            /\ failed <=> op.pc = "thrown"
            /\ failed => op.error = Reverted

C25_Witness ==
  LET op == contractModule.op
  IN /\ op.method = "hasActiveRental" /\ op.pc = "returned"
     /\ LogCalls(op.log, "hasActiveRental", FALSE) # {}
     /\ op.ret.type = "boolean" /\ ~op.ret.bool

C25_WitnessPropagates ==
  LET op == contractModule.op
  IN /\ op.method = "getOwnershipHistory" /\ op.pc = "thrown"
     /\ LogCalls(op.log, "getOwnershipHistory", FALSE) # {}

----------------------------------------------------------------------------
(* Client configurations of the standalone retrieval script *)

\* positions at which a configuration is taken up: attemptDownload starts
\* with the existence check
ApproachStarts(tr) == {i \in DOMAIN tr : tr[i].ev = "getBlob"}

ReadsBetween(tr, from, to) == {i \in from..to : tr[i].ev = "readBlob"}

\* the last position of the configuration taken up at i
ApproachEnd(tr, i) ==
  IF \E k \in ApproachStarts(tr) : k > i
  THEN (CHOOSE k \in ApproachStarts(tr) :
          k > i /\ \A l \in ApproachStarts(tr) : l > i => k <= l) - 1
  ELSE Len(tr)

\* the retrieval attempt begun at i (a readBlob) failed: the read threw, or
\* the bytes came and saving them threw
AttemptFailed(tr, i) ==
  /\ i < Len(tr)
  /\ \/ tr[i + 1].ev \in {"retryable", "terminal"}
     \/ tr[i + 1].ev = "ok" /\ i + 1 < Len(tr) /\ tr[i + 2].ev = "fsError"

AttemptSucceeded(tr, i) ==
  i < Len(tr) /\ tr[i + 1].ev = "ok" /\ ~(i + 1 < Len(tr) /\ tr[i + 2].ev = "fsError")

\* C26: the standalone script takes its configurations in list order, takes
\* up the second only after both retrieval attempts of the first have
\* failed, stops at the first successful retrieval, and issues at most 4
\* readBlob calls; a failed existence check is followed by the retrieval
\* attempts all the same.
C26_ApproachesInOrder ==
  LET d == standalone
      tr == d.trace
      starts == ApproachStarts(tr)
  IN d.pc \notin {"idle", "start"} =>
       /\ Cardinality(starts) = d.approach /\ d.approach \in 1..2
       /\ 1 \in starts
       /\ \A i \in starts : i > 1 =>
            /\ Cardinality(ReadsBetween(tr, 1, i)) = 2
            /\ \A j \in ReadsBetween(tr, 1, i) : AttemptFailed(tr, j)
       /\ \A i \in starts :
            Cardinality(ReadsBetween(tr, i, ApproachEnd(tr, i))) <= 2
       /\ \A j \in DOMAIN tr :
            (tr[j].ev = "readBlob" /\ AttemptSucceeded(tr, j)) =>
               (j + 1 = Len(tr) /\ d.pc = "returned" /\ d.succeeded)
       /\ Count(tr, "readBlob") <= 4
       /\ \A i \in DOMAIN tr :
            tr[i].ev \in {"getBlobOk", "getBlobFailed"} =>
               (i < Len(tr) /\ tr[i + 1].ev = "readBlob")
       /\ (d.pc = "returned" /\ ~d.succeeded) =>
            (d.approach = 2 /\ Count(tr, "readBlob") = 4
               /\ \A j \in DOMAIN tr : tr[j].ev = "readBlob" => AttemptFailed(tr, j))

\* the first configuration fails twice after a failed existence check, the
\* second one succeeds on its second attempt
C26_Witness ==
  LET tr == standalone.trace
  IN /\ standalone.succeeded /\ standalone.approach = 2
     /\ Count(tr, "readBlob") = 4
     /\ Len(tr) >= 2 /\ tr[2].ev = "getBlobFailed"

====
